---- MODULE Spec2Model ----
(***************************************************************************)
(* The YouTube ingestion pipeline of mindlink-notes:                       *)
(*   src/services/youtube.ts            YouTubeService (browser side)      *)
(*   src/pages/api/youtube/transcript.ts the transcript endpoint           *)
(*   src/unnamed/part_001               the analysis endpoint              *)
(* One execution of processVideo is a chain of suspension points; every    *)
(* action below is the code that runs between two of them.                 *)
(***************************************************************************)
EXTENDS Integers, Sequences, FiniteSets, TLC

\* ------------------------------------------------------------------ bounds
\* Longest caption-track manifest the watch page is given.
MaxTracks == 2
\* Largest number of <text> matches in a timed-text document.
MaxElements == 2

\* --------------------------------------------------------- JavaScript values
\* A JavaScript/JSON value is a tagged record, so that values of different
\* types are never compared field by field.
Undefined == [t |-> "undefined"]
Null == [t |-> "null"]
Str(s) == [t |-> "string", s |-> s]
\* Numbers between 0 and 1 matter to the pipeline; a number is kept in tenths.
Num(n) == [t |-> "number", n |-> n]
NaN == [t |-> "nan"]
Bool(b) == [t |-> "boolean", b |-> b]
Arr(a) == [t |-> "array", a |-> a]
Obj(o) == [t |-> "object", o |-> o]

\* JavaScript truthiness (the left operand test of || and of !x).
Truthy(v) ==
  CASE v.t = "undefined" -> FALSE
    [] v.t = "null" -> FALSE
    [] v.t = "nan" -> FALSE
    [] v.t = "string" -> v.s # ""
    [] v.t = "number" -> v.n # 0
    [] v.t = "boolean" -> v.b
    [] OTHER -> TRUE

\* a || b
Or(a, b) == IF Truthy(a) THEN a ELSE b

\* Reading property k of v throws a TypeError on undefined and null.
CanRead(v) == v.t \notin {"undefined", "null"}

\* v[k] for a readable v; an absent property reads as undefined.
Get(v, k) ==
  IF v.t = "object" /\ k \in DOMAIN v.o THEN v.o[k] ELSE Undefined

\* Array.isArray(v)
IsArray(v) == v.t = "array"

\* The object o after o[k] = v.
Set(o, k, v) ==
  Obj([x \in DOMAIN o.o \cup {k} |-> IF x = k THEN v ELSE o.o[x]])

RECURSIVE JsonWire(_)
\* JSON.parse(JSON.stringify(v)), what the reader of a JSON body gets: NaN
\* becomes null, an undefined property is dropped, an undefined array
\* element becomes null.
JsonWire(v) ==
  CASE v.t = "nan" -> Null
    [] v.t = "undefined" -> Null
    [] v.t = "array" -> Arr([i \in 1..Len(v.a) |-> JsonWire(v.a[i])])
    [] v.t = "object" ->
         Obj([k \in {x \in DOMAIN v.o : v.o[x].t # "undefined"} |-> JsonWire(v.o[k])])
    [] OTHER -> v

\* ------------------------------------------------------------------ errors
\* new AppError(message, code): name 'AppError' and a machine-readable code.
AppError(message, code) == [name |-> "AppError", code |-> code, message |-> message]
\* An error thrown by the runtime or by `new Error(message)`: no code.
TypeError == [name |-> "TypeError", code |-> "", message |-> "TypeError"]
NoError == [name |-> "", code |-> "", message |-> ""]

\* The two ways a call ends.
Return(v) == [ok |-> TRUE, value |-> v, error |-> NoError]
Throw(e) == [ok |-> FALSE, value |-> Undefined, error |-> e]

\* ----------------------------------------------------------------- strings
Char(s, i) == SubSeq(s, i, i)

\* s has p as a substring starting at position i.
HasAt(s, i, p) == i + Len(p) - 1 <= Len(s) /\ SubSeq(s, i, i + Len(p) - 1) = p

Min(S) == CHOOSE x \in S : \A y \in S : x <= y

Letters ==
  {"a","b","c","d","e","f","g","h","i","j","k","l","m",
   "n","o","p","q","r","s","t","u","v","w","x","y","z"}
Capitals ==
  {"A","B","C","D","E","F","G","H","I","J","K","L","M",
   "N","O","P","Q","R","S","T","U","V","W","X","Y","Z"}
Digits == {"0","1","2","3","4","5","6","7","8","9"}

\* ---------------------------------------------------------- extractVideoId
\* The regex as it would be without its last alternative.
ThreeUrlPrefixes ==
  <<"youtube.com/watch?v=", "youtu.be/", "youtube.com/embed/">>

\* The four alternatives of YOUTUBE_URL_REGEX, in the order the regex lists them.
UrlPrefixes ==
  <<"youtube.com/watch?v=", "youtu.be/", "youtube.com/embed/", "youtube.com/v/">>

\* The character class [a-zA-Z0-9_-] of the capture group.
IdChars == Letters \cup Capitals \cup Digits \cup {"_", "-"}

\* The length {11} of the capture group.
IdLength == 11

\* The capture group matches at position j: IdLength characters of the class.
IdAt(url, j) ==
  /\ j + IdLength - 1 <= Len(url)
  /\ \A k \in j..(j + IdLength - 1) : Char(url, k) \in IdChars

\* The whole pattern matches at position i through alternative a.
UrlMatchAt(url, i, a) ==
  HasAt(url, i, UrlPrefixes[a]) /\ IdAt(url, i + Len(UrlPrefixes[a]))

\* url.match(regex): the leftmost match, the first alternative that matches
\* there; match[1] is the capture group, and no match gives null.
extractVideoId(url) ==
  LET hits == {i \in 1..Len(url) : \E a \in 1..Len(UrlPrefixes) : UrlMatchAt(url, i, a)}
  IN IF hits = {} THEN Null
     ELSE LET i == Min(hits)
              a == Min({b \in 1..Len(UrlPrefixes) : UrlMatchAt(url, i, b)})
              j == i + Len(UrlPrefixes[a])
          IN Str(SubSeq(url, j, j + IdLength - 1))

\* ------------------------------------------------------------ fetch outcomes
\* What an awaited fetch can do: reject (a network fault), or resolve with a
\* response of some status whose body parses as JSON or does not.
Fault == [kind |-> "fault", status |-> 0, json |-> FALSE, body |-> Undefined]
Response(status, json, body) ==
  [kind |-> "response", status |-> status, json |-> json, body |-> body]

\* response.ok
IsOk(r) == r.kind = "response" /\ r.status \in 200..299

\* A response produced by res.status(n).json(v).
Json(status, v) == Response(status, TRUE, v)
\* A non-success answer of a remote service or of the hosting platform.
NotOk == Response(502, FALSE, Undefined)
\* A success answer whose body is not JSON.
OkText == Response(200, FALSE, Undefined)

\* new Error(message)
Error(message) == [name |-> "Error", code |-> "", message |-> message]

\* s.includes(p)
Includes(s, p) == \E i \in 1..Len(s) : HasAt(s, i, p)

\* -------------------------------------------------------- getVideoMetadata
YOUTUBE_FETCH_FAILED == AppError("Failed to fetch video metadata", "YOUTUBE_FETCH_FAILED")

\* new Date().toISOString(): the clock is not part of the model.
Now == "<now>"

ThumbnailOf(videoId) == "https://img.youtube.com/vi/" \o videoId \o "/maxresdefault.jpg"

\* getVideoMetadata as it would be if a body without a title were an error.
StrictGetVideoMetadata(videoId, r) ==
  IF ~IsOk(r) \/ ~r.json \/ ~CanRead(r.body) \/ ~Truthy(Get(r.body, "title"))
  THEN Throw(AppError("Failed to fetch video metadata", "YOUTUBE_FETCH_FAILED"))
  ELSE Return(Obj([title |-> Get(r.body, "title"),
                   channel |-> Or(Get(r.body, "author_name"), Str("Unknown Channel")),
                   duration |-> Num(0),
                   published_date |-> Str("<now>"),
                   thumbnail_url |-> Or(Get(r.body, "thumbnail_url"),
                                        Str("https://img.youtube.com/vi/" \o videoId \o "/maxresdefault.jpg")),
                   description |-> Get(r.body, "description")]))

\* getVideoMetadata as it would be with a placeholder instead of the rethrow:
\* a failed lookup returns the defaults.
SoftGetVideoMetadata(videoId, r) ==
  Return(Obj([title |-> Str("Unknown Title"),
              channel |-> Str("Unknown Channel"),
              duration |-> Num(0),
              published_date |-> Str(Now),
              thumbnail_url |-> Str(ThumbnailOf(videoId)),
              description |-> Undefined]))

\* The body of getVideoMetadata after its fetch has settled with r. Every
\* throw inside the try block (the fetch rejecting, the !response.ok throw,
\* response.json() failing, reading a property of null) is caught and
\* rethrown as YOUTUBE_FETCH_FAILED.
getVideoMetadata(videoId, r) ==
  IF ~IsOk(r) \/ ~r.json \/ ~CanRead(r.body)
  THEN Throw(YOUTUBE_FETCH_FAILED)
  ELSE Return(Obj([title |-> Or(Get(r.body, "title"), Str("Unknown Title")),
                   channel |-> Or(Get(r.body, "author_name"), Str("Unknown Channel")),
                   duration |-> Num(0),
                   published_date |-> Str(Now),
                   thumbnail_url |-> Or(Get(r.body, "thumbnail_url"), Str(ThumbnailOf(videoId))),
                   description |-> Get(r.body, "description")]))

\* ------------------------------------------------------------ getTranscript
TRANSCRIPT_FAILED ==
  AppError("Failed to fetch video transcript. Video may not have captions available.",
           "TRANSCRIPT_FAILED")

\* getTranscript as it would be with a soft failure: the empty transcript
\* whatever the fetch did.
SoftGetTranscript(r) == Return(Arr(<<>>))

\* The body of getTranscript after its fetch of /api/youtube/transcript has
\* settled with r. Everything thrown inside the try block is rethrown as
\* TRANSCRIPT_FAILED; a body that parses is not inspected: data.transcript is
\* returned as it is, undefined included.
getTranscript(r) ==
  IF ~IsOk(r) \/ ~r.json \/ ~CanRead(r.body)
  THEN Throw(TRANSCRIPT_FAILED)
  ELSE Return(Get(r.body, "transcript"))

\* --------------------------------------------------------- transcriptToText
RECURSIVE NatToStr(_)
NatToStr(n) ==
  LET d == <<"0","1","2","3","4","5","6","7","8","9">>[(n % 10) + 1]
  IN IF n < 10 THEN d ELSE NatToStr(n \div 10) \o d

RECURSIVE JoinStrings(_, _)
\* seq.join(sep) for a sequence of strings.
JoinStrings(seq, sep) ==
  IF Len(seq) = 0 THEN ""
  ELSE IF Len(seq) = 1 THEN seq[1]
  ELSE seq[1] \o sep \o JoinStrings(Tail(seq), sep)

RECURSIVE JsString(_)
\* The string Array.prototype.join makes of an element: undefined and null
\* give the empty string, everything else String(v).
JsString(v) ==
  CASE v.t = "string" -> v.s
    [] v.t \in {"undefined", "null"} -> ""
    [] v.t = "nan" -> "NaN"
    [] v.t = "number" ->
         (IF v.n < 0 THEN "-" ELSE "")
         \o NatToStr((IF v.n < 0 THEN -v.n ELSE v.n) \div 10)
         \o (IF v.n % 10 = 0 THEN "" ELSE "." \o NatToStr((IF v.n < 0 THEN -v.n ELSE v.n) % 10))
    [] v.t = "array" -> JoinStrings([i \in 1..Len(v.a) |-> JsString(v.a[i])], ",")
    [] OTHER -> "[object Object]"

\* transcriptToText as it would be with join('').
GluedTranscriptToText(segments) ==
  IF ~IsArray(segments) THEN Throw(TypeError)
  ELSE IF \E i \in 1..Len(segments.a) : ~CanRead(segments.a[i]) THEN Throw(TypeError)
  ELSE Return(Str(JoinStrings(
         [i \in 1..Len(segments.a) |-> JsString(Get(segments.a[i], "text"))], "")))

\* segments.map(segment => segment.text).join(' '). map is not a function of
\* anything but an array, and segment.text cannot be read of undefined or null.
transcriptToText(segments) ==
  IF ~IsArray(segments) THEN Throw(TypeError)
  ELSE IF \E i \in 1..Len(segments.a) : ~CanRead(segments.a[i]) THEN Throw(TypeError)
  ELSE Return(Str(JoinStrings(
         [i \in 1..Len(segments.a) |-> JsString(Get(segments.a[i], "text"))], " ")))

\* ------------------------------------------------------ heuristic fallback
\* The characters \s and trim() treat as white space (those a TLA+ string holds).
WhiteSpace == {" ", "\t", "\n", "\r", "\f"}

\* The class \w.
WordChars == Letters \cup Capitals \cup Digits \cup {"_"}

LowerOf ==
  [c \in Capitals |->
     CASE c = "A" -> "a" [] c = "B" -> "b" [] c = "C" -> "c" [] c = "D" -> "d"
       [] c = "E" -> "e" [] c = "F" -> "f" [] c = "G" -> "g" [] c = "H" -> "h"
       [] c = "I" -> "i" [] c = "J" -> "j" [] c = "K" -> "k" [] c = "L" -> "l"
       [] c = "M" -> "m" [] c = "N" -> "n" [] c = "O" -> "o" [] c = "P" -> "p"
       [] c = "Q" -> "q" [] c = "R" -> "r" [] c = "S" -> "s" [] c = "T" -> "t"
       [] c = "U" -> "u" [] c = "V" -> "v" [] c = "W" -> "w" [] c = "X" -> "x"
       [] c = "Y" -> "y" [] c = "Z" -> "z"]

RECURSIVE toLowerCase(_)
\* String.prototype.toLowerCase. The string is halved so that a long
\* transcript does not nest deeply.
toLowerCase(s) ==
  IF Len(s) = 0 THEN ""
  ELSE IF Len(s) = 1 THEN (IF s \in Capitals THEN LowerOf[s] ELSE s)
  ELSE toLowerCase(SubSeq(s, 1, Len(s) \div 2))
       \o toLowerCase(SubSeq(s, (Len(s) \div 2) + 1, Len(s)))

RECURSIVE KeepChars(_, _)
\* s.replace(/[^\w]/g, ''): s with every character outside the set removed.
KeepChars(s, set) ==
  IF Len(s) = 0 THEN ""
  ELSE IF Len(s) = 1 THEN (IF s \in set THEN s ELSE "")
  ELSE KeepChars(SubSeq(s, 1, Len(s) \div 2), set)
       \o KeepChars(SubSeq(s, (Len(s) \div 2) + 1, Len(s)), set)

\* s.split(/[seps]+/) without the empty strings a leading or trailing run of
\* separators adds: the maximal runs of characters outside seps, in order.
SplitRuns(s, seps) ==
  LET starts == {i \in 1..Len(s) :
                   Char(s, i) \notin seps /\ (i = 1 \/ Char(s, i - 1) \in seps)}
      endOf(i) == Min({j \in i..Len(s) : j = Len(s) \/ Char(s, j + 1) \in seps})
      nth(k) == CHOOSE i \in starts : Cardinality({j \in starts : j <= i}) = k
  IN [k \in 1..Cardinality(starts) |-> SubSeq(s, nth(k), endOf(nth(k)))]

\* s without its leading white space.
TrimStart(s) ==
  SubSeq(s, Min({i \in 1..(Len(s) + 1) : i = Len(s) + 1 \/ Char(s, i) \notin WhiteSpace}), Len(s))

\* String.prototype.trim
Trim(s) ==
  LET ink == {i \in 1..Len(s) : Char(s, i) \notin WhiteSpace}
  IN IF ink = {} THEN ""
     ELSE SubSeq(s, Min(ink), CHOOSE j \in ink : \A k \in ink : k <= j)

\* stopWords of extractBasicThemes (the same set in both implementations).
StopWords ==
  {"the", "a", "an", "and", "or", "but", "in", "on", "at", "to", "for", "of", "with", "by"}

\* Words shorter than or equal to this are dropped by the browser-side fallback.
ClientMinWord == 3
\* Words shorter than or equal to this are dropped by the endpoint's fallback.
ServerMinWord == 4
\* slice(0, 5)
MaxThemes == 5

DigitOf(c) == CHOOSE d \in 0..9 : NatToStr(d) = c

RECURSIVE DigitsLess(_, _)
\* x < y for two digit strings of the same length.
DigitsLess(x, y) ==
  IF Len(x) = 0 THEN FALSE
  ELSE IF Head(x) = Head(y) THEN DigitsLess(Tail(x), Tail(y))
  ELSE DigitOf(Head(x)) < DigitOf(Head(y))

\* x < y as numbers, for two digit strings without leading zeros.
IndexLess(x, y) == Len(x) < Len(y) \/ (Len(x) = Len(y) /\ DigitsLess(x, y))

\* An integer-like property name (a canonical array index, below 2^32 - 1):
\* Object.entries lists these first, in ascending numeric order, before all
\* other keys.
IsIndexKey(w) ==
  /\ Len(w) > 0
  /\ \A i \in 1..Len(w) : Char(w, i) \in Digits
  /\ (Len(w) > 1 => Head(w) # "0")
  /\ IndexLess(w, "4294967295")

RECURSIVE CountWord(_, _)
\* The number of elements of the sequence equal to w.
CountWord(seq, w) ==
  IF Len(seq) = 0 THEN 0
  ELSE (IF Head(seq) = w THEN 1 ELSE 0) + CountWord(Tail(seq), w)

RECURSIVE FirstSeen(_, _)
\* The distinct elements of seq in order of first occurrence; seen is the set
\* already listed.
FirstSeen(seq, seen) ==
  IF Len(seq) = 0 THEN <<>>
  ELSE IF Head(seq) \in seen THEN FirstSeen(Tail(seq), seen)
       ELSE <<Head(seq)>> \o FirstSeen(Tail(seq), seen \cup {Head(seq)})

RECURSIVE SortIndexKeys(_)
\* The integer-like keys in ascending numeric order.
SortIndexKeys(S) ==
  IF S = {} THEN <<>>
  ELSE LET m == CHOOSE x \in S : \A y \in S : x = y \/ IndexLess(x, y)
       IN <<m>> \o SortIndexKeys(S \ {m})

\* Object.entries(wordFreq): the own keys in property order.
EntriesOrder(kept) ==
  LET keys == FirstSeen(kept, {})
      idx == {keys[i] : i \in {j \in 1..Len(keys) : IsIndexKey(keys[j])}}
  IN SortIndexKeys(idx) \o SelectSeq(keys, LAMBDA k : ~IsIndexKey(k))

RECURSIVE SortByCountDesc(_, _)
\* The stable sort with comparator b - a on the counts: the entry with the
\* highest count first, equal counts in the order they had.
SortByCountDesc(keys, kept) ==
  IF Len(keys) = 0 THEN <<>>
  ELSE LET best == Min({i \in 1..Len(keys) :
                         \A j \in 1..Len(keys) :
                           CountWord(kept, keys[j]) <= CountWord(kept, keys[i])})
       IN <<keys[best]>>
          \o SortByCountDesc(SubSeq(keys, 1, best - 1) \o SubSeq(keys, best + 1, Len(keys)), kept)

\* extractBasicThemes with the length threshold of either implementation.
BasicThemes(transcript, minWord) ==
  LET words == SplitRuns(toLowerCase(transcript), WhiteSpace)
      cleaned == [i \in 1..Len(words) |-> KeepChars(words[i], WordChars)]
      kept == SelectSeq(cleaned, LAMBDA w : Len(w) > minWord /\ w \notin StopWords)
      sorted == SortByCountDesc(EntriesOrder(kept), kept)
  IN SubSeq(sorted, 1, IF Len(sorted) < MaxThemes THEN Len(sorted) ELSE MaxThemes)

\* YouTubeService.extractBasicThemes
extractBasicThemes(transcript) == BasicThemes(transcript, ClientMinWord)

\* A sentence qualifies when its trimmed length exceeds this.
MinSentence == 20
\* With this many qualifying sentences or fewer the summary is a prefix.
FewSentences == 3
\* substring(0, 300)
SummaryPrefix == 300

\* generateBasicSummary as it would be with the comparison one lower.
EagerBasicSummary(transcript) ==
  LET sentences == SelectSeq(SplitRuns(transcript, {".", "!", "?"}),
                             LAMBDA s : Len(Trim(s)) > MinSentence)
  IN IF Len(sentences) < FewSentences
     THEN SubSeq(transcript, 1,
                 IF Len(transcript) < SummaryPrefix THEN Len(transcript) ELSE SummaryPrefix)
          \o "..."
     ELSE Trim(sentences[1]) \o ". " \o Trim(sentences[Len(sentences)]) \o "."

\* generateBasicSummary: identical text in both implementations.
generateBasicSummary(transcript) ==
  LET sentences == SelectSeq(SplitRuns(transcript, {".", "!", "?"}),
                             LAMBDA s : Len(Trim(s)) > MinSentence)
  IN IF Len(sentences) <= FewSentences
     THEN SubSeq(transcript, 1,
                 IF Len(transcript) < SummaryPrefix THEN Len(transcript) ELSE SummaryPrefix)
          \o "..."
     ELSE Trim(sentences[1]) \o ". " \o Trim(sentences[Len(sentences)]) \o "."

StrArr(seq) == Arr([i \in 1..Len(seq) |-> Str(seq[i])])

\* ------------------------------------------------------ analyzeVideoContent
\* Scores are kept in tenths: 0.5, 0.8 and 0.3.
DefaultComplexity == 5
DefaultConfidence == 8
FallbackConfidence == 3

\* The catch block as it would be with the score of an AI-derived analysis.
ConfidentBasicAnalysis(fullTranscript) ==
  Obj([themes |-> StrArr(extractBasicThemes(fullTranscript.s)),
       summary |-> Str(generateBasicSummary(fullTranscript.s)),
       transcript_summary |-> Str(generateBasicSummary(fullTranscript.s)),
       confidence_score |-> Num(DefaultConfidence),
       sentiment |-> Str("neutral")])

\* The catch block of analyzeVideoContent: the local heuristic analysis.
BasicAnalysis(fullTranscript) ==
  Obj([themes |-> StrArr(extractBasicThemes(fullTranscript.s)),
       summary |-> Str(generateBasicSummary(fullTranscript.s)),
       transcript_summary |-> Str(generateBasicSummary(fullTranscript.s)),
       confidence_score |-> Num(FallbackConfidence),
       sentiment |-> Str("neutral")])

\* The try block of analyzeVideoContent after its fetch of
\* /api/ai/analyze-video has settled with r: the fields of the parsed body,
\* each sequence and score behind a || default.
AnalysisOf(r) ==
  Obj([themes |-> Or(Get(r.body, "themes"), Arr(<<>>)),
       key_concepts |-> Or(Get(r.body, "key_concepts"), Arr(<<>>)),
       summary |-> Get(r.body, "summary"),
       transcript_summary |-> Get(r.body, "transcript_summary"),
       suggested_actions |-> Or(Get(r.body, "suggested_actions"), Arr(<<>>)),
       key_timestamps |-> Or(Get(r.body, "key_timestamps"), Arr(<<>>)),
       chapters |-> Or(Get(r.body, "chapters"), Arr(<<>>)),
       complexity_score |-> Or(Get(r.body, "complexity_score"), Num(DefaultComplexity)),
       confidence_score |-> Or(Get(r.body, "confidence_score"), Num(DefaultConfidence)),
       sentiment |-> Or(Get(r.body, "sentiment"), Str("neutral"))])

\* analyzeVideoContent as it would be without its catch block.
UncaughtAnalyzeVideoContent(metadata, fullTranscript, r) ==
  IF ~IsOk(r) \/ ~r.json \/ ~CanRead(r.body)
  THEN Throw(Error("AI analysis failed"))
  ELSE Return(AnalysisOf(r))

\* analyzeVideoContent: whatever is thrown inside the try block (the fetch
\* rejecting, the !response.ok throw, response.json() failing, reading a
\* property of null) ends in the catch block, which returns.
analyzeVideoContent(metadata, fullTranscript, r) ==
  IF ~IsOk(r) \/ ~r.json \/ ~CanRead(r.body)
  THEN Return(BasicAnalysis(fullTranscript))
  ELSE Return(AnalysisOf(r))

\* The numbers of formatTimestamp.
HourSeconds == 3600
MinuteSeconds == 60
PadWidth == 2

RECURSIVE PadStart(_, _)
\* str.padStart(targetLength, '0').
PadStart(str, targetLength) ==
  IF Len(str) >= targetLength THEN str ELSE PadStart("0" \o str, targetLength)

\* formatTimestamp as it would be without padStart.
UnpaddedFormatTimestamp(seconds) ==
  LET hours == seconds \div HourSeconds
      minutes == (seconds % HourSeconds) \div MinuteSeconds
      secs == seconds % MinuteSeconds
  IN IF hours > 0
     THEN Str(NatToStr(hours) \o ":" \o NatToStr(minutes) \o ":" \o NatToStr(secs))
     ELSE Str(NatToStr(minutes) \o ":" \o NatToStr(secs))

\* formatTimestamp on a non-negative whole number of seconds, where every
\* Math.floor is the integer division.
formatTimestamp(seconds) ==
  LET hours == seconds \div HourSeconds
      minutes == (seconds % HourSeconds) \div MinuteSeconds
      secs == seconds % MinuteSeconds
  IN IF hours > 0
     THEN Str(NatToStr(hours) \o ":" \o PadStart(NatToStr(minutes), PadWidth)
              \o ":" \o PadStart(NatToStr(secs), PadWidth))
     ELSE Str(NatToStr(minutes) \o ":" \o PadStart(NatToStr(secs), PadWidth))

\* ============================================== the transcript endpoint
\* src/pages/api/youtube/transcript.ts

\* A handler that has not answered at its first checks goes on.
Proceed == [kind |-> "proceed", status |-> 0, json |-> FALSE, body |-> Undefined]

\* The first checks of the transcript handler on a request [method, body].
TranscriptEntry(req) ==
  IF req.method # "POST" THEN Json(405, Obj([error |-> Str("Method not allowed")]))
  ELSE IF ~Truthy(Get(req.body, "videoId"))
       THEN Json(400, Obj([error |-> Str("Video ID is required")]))
       ELSE Proceed

\* The selection as it would be if the manifest's first track were always taken.
FirstTrack(captionTracks) == captionTracks[1]

\* captionTracks.find(en or en-US) || captionTracks[0], for a non-empty manifest.
SelectTrack(captionTracks) ==
  LET en == {i \in 1..Len(captionTracks) :
               Get(captionTracks[i], "languageCode") \in {Str("en"), Str("en-US")}}
  IN IF en # {} THEN captionTracks[Min(en)] ELSE captionTracks[1]

\* The watch page as the code reads it: whether captionRegex matches, whether
\* JSON.parse accepts the match, and the parsed caption tracks.
Page(manifest, tracks) == [manifest |-> manifest, tracks |-> tracks]

\* fetchYouTubeTranscript from the watch-page fetch settling with r up to the
\* timed-text fetch: what is thrown, or the baseUrl that is fetched next.
AfterWatch(r) ==
  IF r.kind = "fault" THEN Throw(Error("fetch failed"))
  ELSE IF ~IsOk(r) THEN Throw(Error("Video unavailable"))
  ELSE IF r.body.manifest = "absent" THEN Throw(Error("No transcript available"))
  ELSE IF r.body.manifest = "unparseable" THEN Throw(Error("Unexpected token in JSON"))
  ELSE IF Len(r.body.tracks) = 0 THEN Throw(Error("No transcript available"))
  ELSE IF ~Truthy(Get(SelectTrack(r.body.tracks), "baseUrl"))
       THEN Throw(Error("No transcript available"))
       ELSE Return(Get(SelectTrack(r.body.tracks), "baseUrl"))

RECURSIVE ReplaceAll(_, _, _)
\* s.replace(/pat/g, rep) for a literal pattern.
ReplaceAll(s, pat, rep) ==
  LET hits == {i \in 1..Len(s) : HasAt(s, i, pat)}
  IN IF hits = {} THEN s
     ELSE SubSeq(s, 1, Min(hits) - 1) \o rep
          \o ReplaceAll(SubSeq(s, Min(hits) + Len(pat), Len(s)), pat, rep)

\* decodeHTMLEntities: the replacements in the order the code chains them.
decodeHTMLEntities(text) ==
  Trim(ReplaceAll(ReplaceAll(ReplaceAll(ReplaceAll(ReplaceAll(ReplaceAll(ReplaceAll(
    text, "&amp;", "&"), "&lt;", "<"), "&gt;", ">"), "&quot;", "\""), "&#39;", "'"),
    "&nbsp;", " "), "\n", " "))

\* The digits at the start of s.
DigitPrefix(s) ==
  SubSeq(s, 1, Min({i \in 0..Len(s) : i = Len(s) \/ Char(s, i + 1) \notin Digits}))

RECURSIVE StrToNat(_)
StrToNat(s) ==
  IF Len(s) = 0 THEN 0
  ELSE 10 * StrToNat(SubSeq(s, 1, Len(s) - 1)) + DigitOf(Char(s, Len(s)))

\* parseFloat on decimal notation without exponent, in tenths (further
\* fraction digits are cut): leading white space is skipped, the longest
\* numeric prefix is read, and no numeric prefix gives NaN.
parseFloat(str) ==
  LET s == TrimStart(str)
      neg == Len(s) > 0 /\ Head(s) = "-"
      u == IF Len(s) > 0 /\ Head(s) \in {"-", "+"} THEN Tail(s) ELSE s
      ip == DigitPrefix(u)
      rest == SubSeq(u, Len(ip) + 1, Len(u))
      fp == IF Len(rest) > 0 /\ Head(rest) = "." THEN DigitPrefix(Tail(rest)) ELSE ""
      mag == 10 * StrToNat(ip) + (IF fp = "" THEN 0 ELSE DigitOf(Head(fp)))
  IN IF ip = "" /\ fp = "" THEN NaN ELSE Num(IF neg THEN -mag ELSE mag)

\* One match of textRegex in the timed-text document: the three groups.
Element(start, dur, text) == [start |-> start, dur |-> dur, text |-> text]

RECURSIVE parseTranscriptXML(_)
\* parseTranscriptXML over the matches of textRegex in document order: a
\* match whose decoded text is empty is not pushed.
parseTranscriptXML(matches) ==
  IF Len(matches) = 0 THEN <<>>
  ELSE LET m == Head(matches)
           text == decodeHTMLEntities(Trim(m.text))
       IN (IF Len(text) > 0
           THEN <<Obj([start |-> parseFloat(m.start),
                       duration |-> parseFloat(m.dur),
                       text |-> Str(text)])>>
           ELSE <<>>)
          \o parseTranscriptXML(Tail(matches))

\* fetchYouTubeTranscript after the timed-text fetch has settled with r.
AfterXml(r) ==
  IF r.kind = "fault" THEN Throw(Error("fetch failed"))
  ELSE IF ~IsOk(r) THEN Throw(Error("Failed to fetch transcript data"))
  ELSE Return(Arr(parseTranscriptXML(r.body)))

\* fetchYouTubeTranscript as it would be without its catch block.
UncaughtFetchYouTubeTranscript(c) == c

\* The catch block of fetchYouTubeTranscript: whatever was thrown inside the
\* function, the function returns the empty transcript.
fetchYouTubeTranscript(c) ==
  IF c.ok THEN c ELSE Return(Arr(<<>>))

\* The handler once fetchYouTubeTranscript has completed with c: status 200
\* with the transcript, or the catch block's answer chosen by the message of
\* what was thrown.
TranscriptAnswer(c) ==
  IF c.ok
  THEN Json(200, JsonWire(Obj([success |-> Bool(TRUE), transcript |-> c.value])))
  ELSE IF Includes(c.error.message, "No transcript available")
       THEN Json(404, Obj([error |-> Str("No transcript available for this video. The video may not have captions enabled."),
                           code |-> Str("NO_TRANSCRIPT")]))
  ELSE IF Includes(c.error.message, "Video unavailable")
       THEN Json(404, Obj([error |-> Str("Video not found or is private/unavailable."),
                           code |-> Str("VIDEO_UNAVAILABLE")]))
  ELSE Json(500, Obj([error |-> Str("Failed to fetch transcript"),
                      details |-> Str("Transcript service unavailable")]))

\* ================================================ the analysis endpoint
\* src/unnamed/part_001

\* The first checks of the analysis handler on a request [method, body].
AnalysisEntry(req) ==
  IF req.method # "POST" THEN Json(405, Obj([error |-> Str("Method not allowed")]))
  ELSE IF ~Truthy(Get(req.body, "transcript"))
       THEN Json(400, Obj([error |-> Str("Transcript is required")]))
       ELSE Proceed

\* extractBasicThemes of the endpoint.
ServerExtractBasicThemes(transcript) == BasicThemes(transcript, ServerMinWord)

\* word.length > 3 and slice(0, 8) of extractBasicKeywords.
MinKeyword == 3
MaxKeywords == 8

\* extractBasicKeywords: the first words that start with a capital followed
\* by a lower-case letter, without duplicates.
extractBasicKeywords(transcript) ==
  LET words == SplitRuns(transcript, WhiteSpace)
      caps == SelectSeq(words, LAMBDA w :
                /\ Len(w) > MinKeyword
                /\ Char(w, 1) \in Capitals
                /\ Char(w, 2) \in Letters)
  IN FirstSeen(SubSeq(caps, 1, IF Len(caps) < MaxKeywords THEN Len(caps) ELSE MaxKeywords), {})

\* The answer of the inner catch block: the endpoint's own heuristic analysis.
ServerFallback(transcript) ==
  Obj([themes |-> StrArr(ServerExtractBasicThemes(transcript)),
       key_concepts |-> StrArr(extractBasicKeywords(transcript)),
       summary |-> Str(generateBasicSummary(transcript)),
       transcript_summary |-> Str(generateBasicSummary(transcript)),
       suggested_actions |-> StrArr(<<"Review key points", "Take notes on important concepts">>),
       key_timestamps |-> Arr(<<>>),
       chapters |-> Arr(<<>>),
       sentiment |-> Str("neutral"),
       complexity_score |-> Num(DefaultComplexity),
       confidence_score |-> Num(FallbackConfidence)])

RequiredFields == {"themes", "key_concepts", "summary", "sentiment"}
SequenceFields == {"themes", "key_concepts", "suggested_actions", "key_timestamps", "chapters"}

\* The filling-in as it would be if it overwrote all four required fields.
ResetRequired(analysis) ==
  IF \E f \in RequiredFields : ~Truthy(Get(analysis, f))
  THEN Set(Set(Set(Set(analysis,
         "themes", Arr(<<>>)),
         "key_concepts", Arr(<<>>)),
         "summary", Str("Summary not available")),
         "sentiment", Str("neutral"))
  ELSE analysis

\* The defaults filled in when any required field is missing (falsy).
FillMissing(analysis) ==
  IF \E f \in RequiredFields : ~Truthy(Get(analysis, f))
  THEN Set(Set(Set(Set(analysis,
         "themes", Or(Get(analysis, "themes"), Arr(<<>>))),
         "key_concepts", Or(Get(analysis, "key_concepts"), Arr(<<>>))),
         "summary", Or(Get(analysis, "summary"), Str("Summary not available"))),
         "sentiment", Or(Get(analysis, "sentiment"), Str("neutral")))
  ELSE analysis

\* The handler as it would be without the array checks.
KeepShapes(analysis) == analysis

\* "Ensure arrays are actually arrays".
CoerceArrays(analysis) ==
  Obj([k \in DOMAIN analysis.o \cup SequenceFields |->
         IF k \in SequenceFields
         THEN (IF IsArray(Get(analysis, k)) THEN Get(analysis, k) ELSE Arr(<<>>))
         ELSE analysis.o[k]])

\* The handler after the completion call has settled with m (rejected, or a
\* text that JSON.parse accepts, with its value, or does not): the outer
\* catch answers 500; anything thrown between JSON.parse and res.json (the
\* parse itself, reading or setting a property of a value that is no object)
\* ends in the inner catch, which answers with the heuristic analysis; a
\* parsed array takes the assignments but serializes as its elements.
AnalysisAnswer(req, m) ==
  IF m.kind = "fault"
  THEN Json(500, Obj([error |-> Str("Failed to analyze video")]))
  ELSE IF ~m.json \/ m.body.t \notin {"object", "array"}
       THEN Json(200, ServerFallback(Get(req.body, "transcript").s))
       ELSE IF m.body.t = "array" THEN Json(200, m.body)
       ELSE Json(200, JsonWire(CoerceArrays(FillMissing(m.body))))

\* ===================================================== bounded inputs
\* The URLs processVideo is called with.
Urls ==
  {"https://www.youtube.com/watch?v=dQw4w9WgXcQ",
   "https://youtu.be/abc_DEF-123?t=4",
   "https://vimeo.com/12345",
   "https://youtu.be/tooshort",
   ""}

EmptyObj == Obj([x \in {} |-> Undefined])

\* What the metadata lookup (noembed.com) can answer.
MetadataOutcomes ==
  {Fault, NotOk, OkText, Json(200, Null), Json(200, EmptyObj),
   Json(200, Obj([title |-> Str("X"), author_name |-> Str("Y")]))}

\* What the browser can get from one of the application's own endpoints
\* without the handler's answer reaching it: the request or the answer is
\* lost, the platform or a proxy answers in the handler's place with a
\* non-success status or with a success status and a body of its own.
TransportOutcomes ==
  {Fault, NotOk, OkText, Json(200, Null), Json(200, EmptyObj)}

TrackPool ==
  {Obj([languageCode |-> Str("en"), baseUrl |-> Str("https://www.youtube.com/api/timedtext?lang=en")]),
   Obj([languageCode |-> Str("fr"), baseUrl |-> Str("https://www.youtube.com/api/timedtext?lang=fr")]),
   Obj([languageCode |-> Str("en-US")])}

Manifests == UNION {[1..n -> TrackPool] : n \in 0..MaxTracks}

\* What the watch-page request can do.
WatchOutcomes ==
  {Fault, NotOk,
   Response(200, FALSE, Page("absent", <<>>)),
   Response(200, FALSE, Page("unparseable", <<>>))}
  \cup {Response(200, FALSE, Page("tracks", ts)) : ts \in Manifests}

ElementPool ==
  {Element("0", "1.5", "Hello"),
   Element("1.5", "2", " Tom &amp; Jerry\n"),
   Element("3.5", "1", "  ")}

Documents == UNION {[1..n -> ElementPool] : n \in 0..MaxElements}

\* What the timed-text request can do.
XmlOutcomes == {Fault, NotOk} \cup {Response(200, FALSE, d) : d \in Documents}

\* What the completion text can parse to.
CompletionValues ==
  {Null,
   Obj([themes |-> StrArr(<<"music">>), key_concepts |-> StrArr(<<"Chorus">>),
        summary |-> Str("A song."), sentiment |-> Str("positive"),
        complexity_score |-> Num(2), confidence_score |-> Num(9)]),
   Obj([themes |-> Str("music"), sentiment |-> Str("positive"),
        confidence_score |-> Num(0)]),
   Obj([themes |-> StrArr(<<"music">>), summary |-> Str("A song."),
        sentiment |-> Str("mixed"),
        complexity_score |-> Num(70), confidence_score |-> Num(15)])}

\* What the completion call can do: reject, or give a text that is not JSON,
\* or one that is.
CompletionOutcomes == {Fault, OkText} \cup {Json(200, v) : v \in CompletionValues}

\* ============================================================ the state
VARIABLES
  url,            \* the argument of processVideo
  pc,             \* where processVideo is: start, awaitMetadata, awaitTranscript,
                  \* awaitAnalysis, returned, thrown
  videoId,        \* processVideo's videoId
  progress,       \* the calls of onProgress so far, in order
  metadata,       \* processVideo's metadata
  transcript,     \* processVideo's transcript
  fullTranscript, \* processVideo's fullTranscript
  result,         \* what processVideo returned
  error,          \* what processVideo threw
  calls,          \* how many times each network call was issued
  msaw,           \* what getVideoMetadata's fetch settled with
  treq,           \* the request sent to /api/youtube/transcript
  th,             \* the transcript handler serving it
  tsaw,           \* what getTranscript's fetch settled with, and from whom
  areq,           \* the request sent to /api/ai/analyze-video
  ah,             \* the analysis handler serving it
  asaw,           \* what analyzeVideoContent's fetch settled with, and from whom
  fn,             \* the function called on its own (none during an ingestion)
  arg,            \* its argument
  out,            \* what it returned
  runs,           \* the processVideo executions in flight side by side
  ui,             \* the state hooks of the page component
  jobs,           \* the page's asynchronous calls, in order of start
  db              \* the notes and youtube_videos tables

vars ==
  <<url, pc, videoId, progress, metadata, transcript, fullTranscript, result,
    error, calls, msaw, treq, th, tsaw, areq, ah, asaw, fn, arg, out, runs,
    ui, jobs, db>>

\* The state of one ingestion and of its two endpoints.
pipeline ==
  <<url, pc, videoId, progress, metadata, transcript, fullTranscript, result,
    error, calls, msaw, treq, th, tsaw, areq, ah, asaw>>

\* The page component and the database behind it.
page == <<ui, jobs, db>>

\* The page is not mounted.
NoPage == ui = Undefined /\ jobs = <<>> /\ db = Undefined

\* What an ingestion leaves alone: the single calls and the side-by-side runs.
aside == <<fn, arg, out, runs, page>>

\* No fetch has settled yet.
Pending == [from |-> "none", r |-> Proceed]
Saw(from, r) == [from |-> from, r |-> r]

NoRequest == [method |-> "", body |-> Undefined]
Post(body) == [method |-> "POST", body |-> body]

\* onProgress?.(stage, percentage, message)
Event(stage, percentage, message) ==
  [stage |-> stage, percentage |-> percentage, message |-> message]
ReportFetching == Event("fetching", 10, "Fetching video information...")
ReportTranscribing == Event("transcribing", 30, "Getting video transcript...")
\* The third report as a copy of the second.
RepeatedReportTranscribing == Event("transcribing", 30, "Getting video transcript...")
ReportAnalyzing == Event("analyzing", 60, "Analyzing content with AI...")
ReportComplete == Event("complete", 100, "Video processing complete!")

Issue(call) == [calls EXCEPT ![call] = @ + 1]

IdleHandler == [pc |-> "idle", cause |-> "", baseUrl |-> Undefined, res |-> Proceed]

Init ==
  /\ url \in Urls
  /\ pc = "start"
  /\ videoId = Undefined
  /\ progress = <<>>
  /\ metadata = Undefined
  /\ transcript = Undefined
  /\ fullTranscript = Undefined
  /\ result = Undefined
  /\ error = NoError
  /\ calls = [c \in {"metadata", "transcript", "analysis", "watch", "xml", "completion"} |-> 0]
  /\ msaw = Pending
  /\ treq = NoRequest
  /\ th = IdleHandler
  /\ tsaw = Pending
  /\ areq = NoRequest
  /\ ah = IdleHandler
  /\ asaw = Pending
  /\ fn = ""
  /\ arg = Undefined
  /\ out = Undefined
  /\ runs = <<>>
  /\ NoPage

\* processVideo as it would be with the first report ahead of the validation.
ReportBeforeValidation ==
  /\ pc = "start"
  /\ videoId' = extractVideoId(url)
  /\ progress' = Append(progress, ReportFetching)
  /\ IF ~Truthy(extractVideoId(url))
     THEN /\ pc' = "thrown"
          /\ error' = AppError("Invalid YouTube URL", "VALIDATION_ERROR")
          /\ UNCHANGED calls
     ELSE /\ pc' = "awaitMetadata"
          /\ calls' = Issue("metadata")
          /\ UNCHANGED error
  /\ UNCHANGED <<url, metadata, transcript, fullTranscript, result, msaw, treq, th, tsaw, areq, ah, asaw>>
  /\ UNCHANGED aside

\* processVideo as it would be with the metadata and the transcript fetched
\* at the same time.
ParallelStart ==
  /\ pc = "start"
  /\ videoId' = extractVideoId(url)
  /\ IF ~Truthy(extractVideoId(url))
     THEN /\ pc' = "thrown"
          /\ error' = AppError("Invalid YouTube URL", "VALIDATION_ERROR")
          /\ UNCHANGED <<progress, calls, treq>>
     ELSE /\ pc' = "awaitMetadata"
          /\ progress' = Append(progress, ReportFetching)
          /\ calls' = [calls EXCEPT !["metadata"] = @ + 1, !["transcript"] = @ + 1]
          /\ treq' = Post(Obj([videoId |-> extractVideoId(url)]))
          /\ UNCHANGED error
  /\ UNCHANGED <<url, metadata, transcript, fullTranscript, result, msaw, th, tsaw, areq, ah, asaw>>
  /\ UNCHANGED aside

\* ------------------------------------------------------------ processVideo
\* processVideo up to its first await: the identifier is extracted; without
\* one VALIDATION_ERROR is thrown, with one 'fetching' is reported and
\* getVideoMetadata issues its fetch.
ProcessVideoStart ==
  /\ pc = "start"
  /\ videoId' = extractVideoId(url)
  /\ IF ~Truthy(extractVideoId(url))
     THEN /\ pc' = "thrown"
          /\ error' = AppError("Invalid YouTube URL", "VALIDATION_ERROR")
          /\ UNCHANGED <<progress, calls>>
     ELSE /\ pc' = "awaitMetadata"
          /\ progress' = Append(progress, ReportFetching)
          /\ calls' = Issue("metadata")
          /\ UNCHANGED error
  /\ UNCHANGED <<url, metadata, transcript, fullTranscript, result, msaw, treq, th, tsaw, areq, ah, asaw>>
  /\ UNCHANGED aside

\* The metadata fetch settles: getVideoMetadata returns or throws; on return
\* 'transcribing' is reported and getTranscript issues its fetch.
MetadataSettles ==
  /\ pc = "awaitMetadata"
  /\ \E r \in MetadataOutcomes :
       LET c == getVideoMetadata(videoId.s, r)
       IN /\ msaw' = Saw("service", r)
          /\ IF ~c.ok
             THEN /\ pc' = "thrown"
                  /\ error' = c.error
                  /\ UNCHANGED <<metadata, progress, calls, treq>>
             ELSE /\ metadata' = c.value
                  /\ progress' = Append(progress, ReportTranscribing)
                  /\ calls' = Issue("transcript")
                  /\ treq' = Post(Obj([videoId |-> videoId]))
                  /\ pc' = "awaitTranscript"
                  /\ UNCHANGED error
  /\ UNCHANGED <<url, videoId, transcript, fullTranscript, result, th, tsaw, areq, ah, asaw>>
  /\ UNCHANGED aside

\* The answers getTranscript's fetch can settle with: the handler's, once it
\* has answered, or one of the transport's.
TranscriptAnswers ==
  {Saw("transport", r) : r \in TransportOutcomes}
  \cup (IF th.pc = "done" THEN {Saw("handler", th.res)} ELSE {})

\* The transcript fetch settles: getTranscript returns or throws; on return
\* the text is joined, 'analyzing' is reported and analyzeVideoContent issues
\* its fetch. transcriptToText runs outside every try block: what it throws
\* leaves processVideo as it is.
TranscriptSettles ==
  /\ pc = "awaitTranscript"
  /\ \E a \in TranscriptAnswers :
       LET c == getTranscript(a.r)
           t == transcriptToText(c.value)
       IN /\ tsaw' = a
          /\ IF ~c.ok
             THEN /\ pc' = "thrown"
                  /\ error' = c.error
                  /\ UNCHANGED <<transcript, fullTranscript, progress, calls, areq>>
             ELSE IF ~t.ok
             THEN /\ pc' = "thrown"
                  /\ error' = t.error
                  /\ transcript' = c.value
                  /\ UNCHANGED <<fullTranscript, progress, calls, areq>>
             ELSE /\ transcript' = c.value
                  /\ fullTranscript' = t.value
                  /\ progress' = Append(progress, ReportAnalyzing)
                  /\ calls' = Issue("analysis")
                  /\ areq' = Post(Obj([title |-> Get(metadata, "title"),
                                       channel |-> Get(metadata, "channel"),
                                       transcript |-> t.value,
                                       segments |-> c.value]))
                  /\ pc' = "awaitAnalysis"
                  /\ UNCHANGED error
  /\ UNCHANGED <<url, videoId, metadata, result, msaw, treq, th, ah, asaw>>
  /\ UNCHANGED aside

AnalysisAnswers ==
  {Saw("transport", r) : r \in TransportOutcomes}
  \cup (IF ah.pc = "done" THEN {Saw("handler", ah.res)} ELSE {})

\* The analysis fetch settles: analyzeVideoContent completes, 'complete' is
\* reported and the result is returned.
AnalysisSettles ==
  /\ pc = "awaitAnalysis"
  /\ \E a \in AnalysisAnswers :
       LET c == analyzeVideoContent(metadata, fullTranscript, a.r)
       IN /\ asaw' = a
          /\ IF ~c.ok
             THEN /\ pc' = "thrown"
                  /\ error' = c.error
                  /\ UNCHANGED <<progress, result>>
             ELSE /\ progress' = Append(progress, ReportComplete)
                  /\ result' = Obj([metadata |-> metadata,
                                    transcript |-> transcript,
                                    fullTranscript |-> fullTranscript,
                                    analysis |-> c.value])
                  /\ pc' = "returned"
                  /\ UNCHANGED error
  /\ UNCHANGED <<url, videoId, metadata, transcript, fullTranscript, calls, msaw, treq, th, tsaw, areq, ah>>
  /\ UNCHANGED aside

\* ------------------------------------------------- the transcript handler
\* Why fetchYouTubeTranscript did not get to the timed-text document.
WatchCause(r) ==
  IF r.kind = "fault" THEN "watchFault"
  ELSE IF ~IsOk(r) THEN "watchNotOk"
  ELSE IF r.body.manifest = "absent" THEN "noManifest"
  ELSE IF r.body.manifest = "unparseable" THEN "badManifest"
  ELSE IF Len(r.body.tracks) = 0 THEN "emptyManifest"
  ELSE "noBaseUrl"

XmlCause(r) ==
  IF r.kind = "fault" THEN "xmlFault" ELSE IF ~IsOk(r) THEN "xmlNotOk" ELSE "parsed"

\* The request reaches the handler: it answers at once, or
\* fetchYouTubeTranscript issues the watch-page fetch.
TranscriptRequestArrives ==
  /\ treq # NoRequest
  /\ th.pc = "idle"
  /\ IF TranscriptEntry(treq) # Proceed
     THEN /\ th' = [th EXCEPT !.pc = "done", !.cause = "rejected", !.res = TranscriptEntry(treq)]
          /\ UNCHANGED calls
     ELSE /\ th' = [th EXCEPT !.pc = "awaitWatch"]
          /\ calls' = Issue("watch")
  /\ UNCHANGED <<url, pc, videoId, progress, metadata, transcript, fullTranscript,
                 result, error, msaw, treq, tsaw, areq, ah, asaw>>
  /\ UNCHANGED aside

\* The watch-page fetch settles: the timed-text fetch is issued, or the
\* function ends and the handler answers.
WatchPageSettles ==
  /\ th.pc = "awaitWatch"
  /\ \E r \in WatchOutcomes :
       LET c == AfterWatch(r)
       IN IF c.ok
          THEN /\ th' = [th EXCEPT !.pc = "awaitXml", !.baseUrl = c.value]
               /\ calls' = Issue("xml")
          ELSE /\ th' = [th EXCEPT !.pc = "done", !.cause = WatchCause(r),
                                   !.res = TranscriptAnswer(fetchYouTubeTranscript(c))]
               /\ UNCHANGED calls
  /\ UNCHANGED <<url, pc, videoId, progress, metadata, transcript, fullTranscript,
                 result, error, msaw, treq, tsaw, areq, ah, asaw>>
  /\ UNCHANGED aside

\* The timed-text step as it would be with one retry of a failed fetch.
RetryTimedText ==
  /\ th.pc = "awaitXml"
  /\ \E r \in XmlOutcomes :
       IF ~IsOk(r) /\ calls["xml"] < 2
       THEN /\ calls' = Issue("xml")
            /\ UNCHANGED th
       ELSE /\ th' = [th EXCEPT !.pc = "done", !.cause = XmlCause(r),
                                !.res = TranscriptAnswer(fetchYouTubeTranscript(AfterXml(r)))]
            /\ UNCHANGED calls
  /\ UNCHANGED <<url, pc, videoId, progress, metadata, transcript, fullTranscript,
                 result, error, msaw, treq, tsaw, areq, ah, asaw>>
  /\ UNCHANGED aside

\* The timed-text fetch settles: the function ends and the handler answers.
TimedTextSettles ==
  /\ th.pc = "awaitXml"
  /\ \E r \in XmlOutcomes :
       th' = [th EXCEPT !.pc = "done", !.cause = XmlCause(r),
                        !.res = TranscriptAnswer(fetchYouTubeTranscript(AfterXml(r)))]
  /\ UNCHANGED <<url, pc, videoId, progress, metadata, transcript, fullTranscript,
                 result, error, calls, msaw, treq, tsaw, areq, ah, asaw>>
  /\ UNCHANGED aside

\* --------------------------------------------------- the analysis handler
\* The request reaches the handler: it answers at once, or the completion
\* call is issued.
AnalysisRequestArrives ==
  /\ areq # NoRequest
  /\ ah.pc = "idle"
  /\ IF AnalysisEntry(areq) # Proceed
     THEN /\ ah' = [ah EXCEPT !.pc = "done", !.cause = "rejected", !.res = AnalysisEntry(areq)]
          /\ UNCHANGED calls
     ELSE /\ ah' = [ah EXCEPT !.pc = "awaitCompletion"]
          /\ calls' = Issue("completion")
  /\ UNCHANGED <<url, pc, videoId, progress, metadata, transcript, fullTranscript,
                 result, error, msaw, treq, th, tsaw, areq, asaw>>
  /\ UNCHANGED aside

CompletionCause(m) ==
  IF m.kind = "fault" THEN "completionFault"
  ELSE IF ~m.json \/ m.body.t \notin {"object", "array"} THEN "unparsed"
  ELSE "parsed"

\* The completion call settles: the handler answers.
CompletionSettles ==
  /\ ah.pc = "awaitCompletion"
  /\ \E m \in CompletionOutcomes :
       ah' = [ah EXCEPT !.pc = "done", !.cause = CompletionCause(m),
                        !.res = AnalysisAnswer(areq, m)]
  /\ UNCHANGED <<url, pc, videoId, progress, metadata, transcript, fullTranscript,
                 result, error, calls, msaw, treq, th, tsaw, areq, asaw>>
  /\ UNCHANGED aside

Next ==
  \/ ProcessVideoStart
  \/ MetadataSettles
  \/ TranscriptRequestArrives
  \/ WatchPageSettles
  \/ TimedTextSettles
  \/ TranscriptSettles
  \/ AnalysisRequestArrives
  \/ CompletionSettles
  \/ AnalysisSettles

Spec == Init /\ [][Next]_vars

\* ===================================== two ingestions side by side
\* processVideo and the methods it calls are static and keep everything in
\* locals; the class holds only the regular expression, which has no g flag
\* and so no position that one match would leave for the next. Each
\* execution is therefore a record of its own locals.
RunIds == {1, 2}

NewRun(u) ==
  [url |-> u, pc |-> "start", videoId |-> Undefined, progress |-> <<>>,
   metadata |-> Undefined, transcript |-> Undefined, fullTranscript |-> Undefined,
   result |-> Undefined, error |-> NoError,
   msaw |-> Pending, tsaw |-> Pending, asaw |-> Pending]

\* The URLs of the two executions: they may name the same video.
PairUrls ==
  {"https://www.youtube.com/watch?v=dQw4w9WgXcQ",
   "https://youtu.be/abc_DEF-123?t=4",
   "https://vimeo.com/12345"}

\* What the transcript endpoint, or the transport in its place, can answer.
PairTranscriptOutcomes ==
  {Fault, NotOk, Json(200, EmptyObj),
   Json(200, Obj([success |-> Bool(TRUE), transcript |-> Arr(<<>>)])),
   Json(200, Obj([success |-> Bool(TRUE),
                  transcript |-> Arr(<<Obj([start |-> Num(0), duration |-> Num(15),
                                            text |-> Str("Hello")])>>)]))}

\* What the analysis endpoint, or the transport in its place, can answer.
PairAnalysisOutcomes ==
  {Fault,
   Json(400, Obj([error |-> Str("Transcript is required")])),
   Json(200, ServerFallback("Hello")),
   Json(200, Obj([themes |-> StrArr(<<"music">>), key_concepts |-> StrArr(<<"Chorus">>),
                  summary |-> Str("A song."), sentiment |-> Str("positive"),
                  complexity_score |-> Num(2), confidence_score |-> Num(9)]))}

\* processVideo up to its first await, on the locals of one execution.
StartStep(run) ==
  IF ~Truthy(extractVideoId(run.url))
  THEN [run EXCEPT !.videoId = extractVideoId(run.url),
                   !.pc = "thrown",
                   !.error = AppError("Invalid YouTube URL", "VALIDATION_ERROR")]
  ELSE [run EXCEPT !.videoId = extractVideoId(run.url),
                   !.pc = "awaitMetadata",
                   !.progress = Append(run.progress, ReportFetching)]

\* processVideo from getVideoMetadata completing with c (its fetch having
\* settled with r) up to the next await.
MetadataStep(run, c, r) ==
  IF ~c.ok
  THEN [run EXCEPT !.msaw = Saw("service", r), !.pc = "thrown", !.error = c.error]
  ELSE [run EXCEPT !.msaw = Saw("service", r),
                   !.metadata = c.value,
                   !.progress = Append(run.progress, ReportTranscribing),
                   !.pc = "awaitTranscript"]

\* processVideo from the transcript fetch settling with r up to the next await.
TranscriptStep(run, r) ==
  LET c == getTranscript(r)
      t == transcriptToText(c.value)
  IN IF ~c.ok
     THEN [run EXCEPT !.tsaw = Saw("service", r), !.pc = "thrown", !.error = c.error]
     ELSE IF ~t.ok
     THEN [run EXCEPT !.tsaw = Saw("service", r), !.pc = "thrown", !.error = t.error,
                      !.transcript = c.value]
     ELSE [run EXCEPT !.tsaw = Saw("service", r),
                      !.transcript = c.value,
                      !.fullTranscript = t.value,
                      !.progress = Append(run.progress, ReportAnalyzing),
                      !.pc = "awaitAnalysis"]

\* processVideo from the analysis fetch settling with r to its return.
AnalysisStep(run, r) ==
  LET c == analyzeVideoContent(run.metadata, run.fullTranscript, r)
  IN IF ~c.ok
     THEN [run EXCEPT !.asaw = Saw("service", r), !.pc = "thrown", !.error = c.error]
     ELSE [run EXCEPT !.asaw = Saw("service", r),
                      !.progress = Append(run.progress, ReportComplete),
                      !.result = Obj([metadata |-> run.metadata,
                                      transcript |-> run.transcript,
                                      fullTranscript |-> run.fullTranscript,
                                      analysis |-> c.value]),
                      !.pc = "returned"]

\* The metadata call as it would be behind a cache shared by the executions:
\* the metadata another execution already holds for the same video is reused.
CachedMetadataFor(i, r) ==
  LET holders == {j \in RunIds \ {i} :
                    runs[j].videoId = runs[i].videoId /\ runs[j].metadata # Undefined}
  IN IF holders # {}
     THEN Return(runs[CHOOSE j \in holders : TRUE].metadata)
     ELSE getVideoMetadata(runs[i].videoId.s, r)

\* `await this.getVideoMetadata(videoId)` of execution i: its own lookup.
MetadataFor(i, r) == getVideoMetadata(runs[i].videoId.s, r)

\* No ingestion of the single-run model is going on.
NoIngestion ==
  /\ url = ""
  /\ pc = "start"
  /\ videoId = Undefined
  /\ progress = <<>>
  /\ metadata = Undefined
  /\ transcript = Undefined
  /\ fullTranscript = Undefined
  /\ result = Undefined
  /\ error = NoError
  /\ calls = [c \in {"metadata", "transcript", "analysis", "watch", "xml", "completion"} |-> 0]
  /\ msaw = Pending
  /\ treq = NoRequest
  /\ th = IdleHandler
  /\ tsaw = Pending
  /\ areq = NoRequest
  /\ ah = IdleHandler
  /\ asaw = Pending

PairInit ==
  /\ NoIngestion
  /\ fn = ""
  /\ arg = Undefined
  /\ out = Undefined
  /\ runs \in [RunIds -> {NewRun(u) : u \in PairUrls}]
  /\ NoPage

RunStarts ==
  /\ \E i \in RunIds :
       /\ runs[i].pc = "start"
       /\ runs' = [runs EXCEPT ![i] = StartStep(runs[i])]
  /\ UNCHANGED <<pipeline, fn, arg, out, page>>

RunMetadataSettles ==
  /\ \E i \in RunIds :
       /\ runs[i].pc = "awaitMetadata"
       /\ \E r \in MetadataOutcomes :
            runs' = [runs EXCEPT ![i] = MetadataStep(runs[i], MetadataFor(i, r), r)]
  /\ UNCHANGED <<pipeline, fn, arg, out, page>>

RunTranscriptSettles ==
  /\ \E i \in RunIds :
       /\ runs[i].pc = "awaitTranscript"
       /\ \E r \in PairTranscriptOutcomes :
            runs' = [runs EXCEPT ![i] = TranscriptStep(runs[i], r)]
  /\ UNCHANGED <<pipeline, fn, arg, out, page>>

RunAnalysisSettles ==
  /\ \E i \in RunIds :
       /\ runs[i].pc = "awaitAnalysis"
       /\ \E r \in PairAnalysisOutcomes :
            runs' = [runs EXCEPT ![i] = AnalysisStep(runs[i], r)]
  /\ UNCHANGED <<pipeline, fn, arg, out, page>>

PairNext ==
  \/ RunStarts
  \/ RunMetadataSettles
  \/ RunTranscriptSettles
  \/ RunAnalysisSettles

PairSpec == PairInit /\ [][PairNext]_vars

\* =========================================== functions called on their own
\* extractVideoId and transcriptToText are public static methods, the
\* heuristics and the handler's treatment of a parsed completion are
\* functions of their argument alone: each is applied to an argument drawn
\* from a bounded set.

\* Longest transcript, in words, given to extractBasicThemes.
MaxWords == 3
\* Longest transcript, in pieces, given to generateBasicSummary.
MaxPieces == 4
\* The largest count of seconds of the range formatTimestamp is applied to.
MaxSeconds == 3700
\* The most notes the capture form is submitted for.
MaxSubmits == 2

NotCalled == [t |-> "not called"]

\* URLs put together from a scheme, a host and path, an identifier and a rest.
UrlSchemes == {"", "https://www.", "http://m."}
AcceptedShapes ==
  {"youtube.com/watch?v=", "youtu.be/", "youtube.com/embed/", "youtube.com/v/"}
OtherShapes ==
  {"vimeo.com/", "youtube.com/shorts/", "youtube.com/watch?feature=share&v="}
GoodIds == {"dQw4w9WgXcQ", "abc_DEF-123"}
BadIds == {"", "tooshort", "abc!DEF-123"}
LongIds == {"dQw4w9WgXcQ2"}
UrlRests == {"", "?t=4", "&list=PL1"}

UrlOf(scheme, shape, id, rest) == scheme \o shape \o id \o rest

UrlInputs ==
  {UrlOf(sc, sh, id, rs) :
     sc \in UrlSchemes, sh \in AcceptedShapes \cup OtherShapes,
     id \in GoodIds \cup BadIds \cup LongIds, rs \in UrlRests}

\* Transcripts of a few words for the theme heuristics, and one with more
\* distinct words than themes are kept.
ThemeWords == {"Dogs,", "dogs", "with", "2024", "quick", "cat"}
ManyWords == "alpha1 bravo1 charlie delta1 echo1 foxtrot golf1 alpha1"
ThemeInputs ==
  {JoinStrings(ws, " ") : ws \in UNION {[1..n -> ThemeWords] : n \in 0..MaxWords}}
  \cup {ManyWords}

RECURSIVE Repeat(_, _)
Repeat(s, n) == IF n = 0 THEN "" ELSE s \o Repeat(s, n - 1)

\* Transcripts of a few sentences for the summary heuristic, and one longer
\* than the prefix without any sentence end.
SentencePieces ==
  {"This sentence is long enough. ",
   "  Here is another long sentence!? ",
   "Too short. ",
   "      Padded but short      ."}
LongText == Repeat("no stop here ", 25)
SummaryInputs ==
  {JoinStrings(ps, "") : ps \in UNION {[1..n -> SentencePieces] : n \in 0..MaxPieces}}
  \cup {LongText}

\* What JSON.parse can give for the completion text when it gives an object:
\* each field absent, well shaped, or of another shape.
ParsedFields ==
  [themes : {Undefined, StrArr(<<"music">>), Str("music")},
   key_concepts : {Undefined, StrArr(<<"Chorus">>), Arr(<<>>)},
   summary : {Undefined, Str("A song."), Str("")},
   sentiment : {Undefined, Str("positive")},
   suggested_actions : {Undefined, StrArr(<<"Listen">>), Str("Listen")},
   key_timestamps : {Undefined, Null},
   chapters : {Undefined, Arr(<<>>), EmptyObj},
   confidence_score : {Undefined, Num(9)}]

\* The object with the fields that are there.
ParsedObject(fields) ==
  Obj([k \in {x \in DOMAIN fields : fields[x] # Undefined} |-> fields[k]])

\* Parsed values: the objects, and an array.
ParsedInputs == {ParsedObject(f) : f \in ParsedFields} \cup {StrArr(<<"music">>)}

\* The request the completion was asked for.
SomeAnalysisRequest ==
  Post(Obj([title |-> Str("X"), channel |-> Str("Y"), transcript |-> Str("Hello"),
            segments |-> Arr(<<>>)]))

\* What the metadata lookup can answer with success and a JSON object: each
\* field there, absent, or (the title) empty.
MetadataFields ==
  [title : {Undefined, Str("X"), Str("")},
   author_name : {Undefined, Str("Y")},
   thumbnail_url : {Undefined, Str("https://i.ytimg.com/vi/x/hq.jpg")},
   description : {Undefined, Str("D")}]

\* The calls of getVideoMetadata: an identifier and what the fetch settles with.
MetadataCalls ==
  [videoId : GoodIds,
   r : {Fault, NotOk, OkText, Json(200, Null)}
       \cup {Json(200, ParsedObject(f)) : f \in MetadataFields}]

\* The caption tracks a manifest is made of here: two English ones and two
\* others with a baseUrl each, and an English one without.
CallTrackPool ==
  {Obj([languageCode |-> Str("en"), baseUrl |-> Str("https://www.youtube.com/api/timedtext?lang=en")]),
   Obj([languageCode |-> Str("en-US"), baseUrl |-> Str("https://www.youtube.com/api/timedtext?lang=en-US")]),
   Obj([languageCode |-> Str("fr"), baseUrl |-> Str("https://www.youtube.com/api/timedtext?lang=fr")]),
   Obj([languageCode |-> Str("de"), baseUrl |-> Str("https://www.youtube.com/api/timedtext?lang=de")]),
   Obj([languageCode |-> Str("en-US")])}

\* The non-empty manifests.
CallManifests == UNION {[1..n -> CallTrackPool] : n \in 1..MaxTracks}

\* The matches of textRegex the parser is applied to here: plain text, text
\* with each of the entities and a newline, an escaped entity, blank text.
CallElementPool ==
  {Element("0", "1.5", "Hello"),
   Element("1.5", "2", " Tom &amp; Jerry\n"),
   Element("5", "1", "1 &amp;lt; 2"),
   Element("7", "1", "   "),
   Element("9", "2", "&quot;a&#39;s&quot;&nbsp;b &gt; c\nd &lt; e")}

CallDocuments == UNION {[1..n -> CallElementPool] : n \in 0..MaxElements}

\* The seconds formatTimestamp is applied to: every count up to MaxSeconds,
\* and the counts around two, ten, twenty-four and a hundred hours.
CallSeconds ==
  (0..MaxSeconds) \cup {7199, 7200, 35999, 36000, 86399, 86400, 359999, 360000}

\* The transcripts both fallbacks are applied to: the analysis endpoint
\* answers 400 to the empty one and does not reach its fallback.
FallbackInputs == ThemeInputs \ {""}

CallInit ==
  /\ NoIngestion
  /\ runs = <<>>
  /\ out = NotCalled
  /\ \/ fn = "extractVideoId" /\ arg \in UrlInputs
     \/ fn = "extractBasicThemes" /\ arg \in ThemeInputs
     \/ fn = "ServerExtractBasicThemes" /\ arg \in ThemeInputs
     \/ fn = "generateBasicSummary" /\ arg \in SummaryInputs
     \/ fn = "AnalysisAnswer" /\ arg \in ParsedInputs
     \/ fn = "fallbacks" /\ arg \in FallbackInputs
     \/ fn = "formatTimestamp" /\ arg \in CallSeconds
     \/ fn = "parseTranscriptXML" /\ arg \in CallDocuments
     \/ fn = "fetchYouTubeTranscript" /\ arg \in CallManifests
     \/ fn = "getVideoMetadata" /\ arg \in MetadataCalls
  /\ NoPage

CallExtractVideoId ==
  /\ fn = "extractVideoId" /\ out = NotCalled
  /\ out' = extractVideoId(arg)
  /\ UNCHANGED <<pipeline, fn, arg, runs, page>>

CallExtractBasicThemes ==
  /\ fn = "extractBasicThemes" /\ out = NotCalled
  /\ out' = StrArr(extractBasicThemes(arg))
  /\ UNCHANGED <<pipeline, fn, arg, runs, page>>

CallServerExtractBasicThemes ==
  /\ fn = "ServerExtractBasicThemes" /\ out = NotCalled
  /\ out' = StrArr(ServerExtractBasicThemes(arg))
  /\ UNCHANGED <<pipeline, fn, arg, runs, page>>

CallGenerateBasicSummary ==
  /\ fn = "generateBasicSummary" /\ out = NotCalled
  /\ out' = Str(generateBasicSummary(arg))
  /\ UNCHANGED <<pipeline, fn, arg, runs, page>>

\* The handler from JSON.parse giving arg to its answer.
CallAnalysisAnswer ==
  /\ fn = "AnalysisAnswer" /\ out = NotCalled
  /\ out' = AnalysisAnswer(SomeAnalysisRequest, Json(200, arg))
  /\ UNCHANGED <<pipeline, fn, arg, runs, page>>

CallGetVideoMetadata ==
  /\ fn = "getVideoMetadata" /\ out = NotCalled
  /\ out' = getVideoMetadata(arg.videoId, arg.r)
  /\ UNCHANGED <<pipeline, fn, arg, runs, page>>

\* fetchYouTubeTranscript on a watch page that carries the manifest, up to
\* its timed-text request.
CallFetchYouTubeTranscript ==
  /\ fn = "fetchYouTubeTranscript" /\ out = NotCalled
  /\ out' = AfterWatch(Response(200, FALSE, Page("tracks", arg)))
  /\ UNCHANGED <<pipeline, fn, arg, runs, page>>

CallParseTranscriptXML ==
  /\ fn = "parseTranscriptXML" /\ out = NotCalled
  /\ out' = Arr(parseTranscriptXML(arg))
  /\ UNCHANGED <<pipeline, fn, arg, runs, page>>

CallFormatTimestamp ==
  /\ fn = "formatTimestamp" /\ out = NotCalled
  /\ out' = formatTimestamp(arg)
  /\ UNCHANGED <<pipeline, fn, arg, runs, page>>

\* The analysis of the final result on the two fallback paths for one
\* transcript: the catch block of analyzeVideoContent, and the endpoint's
\* fallback answer as analyzeVideoContent then copies it.
CallFallbacks ==
  /\ fn = "fallbacks" /\ out = NotCalled
  /\ out' = [t |-> "pair",
             client |-> BasicAnalysis(Str(arg)),
             server |-> AnalysisOf(Json(200, ServerFallback(arg)))]
  /\ UNCHANGED <<pipeline, fn, arg, runs, page>>

CallNext ==
  \/ CallExtractVideoId
  \/ CallExtractBasicThemes
  \/ CallServerExtractBasicThemes
  \/ CallGenerateBasicSummary
  \/ CallGetVideoMetadata
  \/ CallFetchYouTubeTranscript
  \/ CallParseTranscriptXML
  \/ CallFormatTimestamp
  \/ CallFallbacks
  \/ CallAnalysisAnswer

CallSpec == CallInit /\ [][CallNext]_vars

\* ====================================================== the page component
\* src/pages/index.tsx: the Home component with a user signed in, in a
\* browser without SpeechRecognition (speechSupported stays false, the voice
\* buttons are not rendered and isListening stays false). A handler reads the
\* state of the render it was created in: an asynchronous handler keeps the
\* notes and the youtubeUrl of the click that started it.

\* A row of the notes table: its id, note_type and metadata.youtube_id.
Row(id, note_type, youtube_id) ==
  [id |-> id, note_type |-> note_type, youtube_id |-> youtube_id]

\* data before the insert has answered.
NoData == Row(0, "", "")

\* The state hooks after the first render, with the number of setTimeout
\* callbacks that are due.
InitialUi ==
  [notes |-> <<>>, showCapture |-> FALSE, captureMode |-> "text",
   noteContent |-> "", youtubeUrl |-> "", isProcessing |-> FALSE,
   progress |-> "null", timers |-> 0]

\* An asynchronous call started from the render with state s: what it does,
\* where it is, and what it captured.
Started(kind, at, s, id) ==
  [kind |-> kind, pc |-> at, notes |-> s.notes, youtubeUrl |-> s.youtubeUrl,
   videoId |-> id, result |-> "none", data |-> NoData]

\* A call that has ended: nothing of it is read again.
Ended(kind) == Started(kind, "done", InitialUi, Null)

\* What the user types into the two inputs.
PageTexts == {"idea"}
PageUrls == {"https://youtu.be/dQw4w9WgXcQ", "not a video"}

\* The notes table when the page is opened.
StoredNotes == {<<Row(1, "text", "")>>}

\* select('*').order('created_at', {ascending: false}).
Newest(rows) == [i \in 1..Len(rows) |-> rows[Len(rows) + 1 - i]]

\* The submissions of the capture form so far.
Submits ==
  Cardinality({j \in 1..Len(jobs) :
                 jobs[j].kind \in {"createTextNote", "createYouTubeNote"}})

PageInit ==
  /\ NoIngestion
  /\ fn = ""
  /\ arg = Undefined
  /\ out = Undefined
  /\ runs = <<>>
  /\ ui = InitialUi
  /\ jobs = <<Started("loadNotes", "select", InitialUi, Null)>>
  /\ db \in {[notes |-> rows, youtube_videos |-> {}] : rows \in StoredNotes}

\* The buttons that open the capture modal: the header's, and the two of the
\* empty list, which also choose the mode. The modal covers them.
OpenCapture ==
  /\ ~ui.showCapture
  /\ \E mode \in {"", "text", "youtube"} :
       /\ mode # "" => Len(ui.notes) = 0
       /\ ui' = [ui EXCEPT !.showCapture = TRUE,
                           !.captureMode = IF mode = "" THEN @ ELSE mode]
  /\ UNCHANGED <<pipeline, fn, arg, out, runs, jobs, db>>

closeCapture ==
  /\ ui.showCapture
  /\ ui' = [ui EXCEPT !.showCapture = FALSE, !.noteContent = "",
                      !.youtubeUrl = "", !.captureMode = "text",
                      !.isProcessing = FALSE, !.progress = "null"]
  /\ UNCHANGED <<pipeline, fn, arg, out, runs, jobs, db>>

SelectMode ==
  /\ ui.showCapture
  /\ \E mode \in {"text", "youtube"} : ui' = [ui EXCEPT !.captureMode = mode]
  /\ UNCHANGED <<pipeline, fn, arg, out, runs, jobs, db>>

\* The textarea, disabled while isProcessing.
TypeNote ==
  /\ ui.showCapture /\ ui.captureMode = "text" /\ ~ui.isProcessing
  /\ \E text \in PageTexts : ui' = [ui EXCEPT !.noteContent = text]
  /\ UNCHANGED <<pipeline, fn, arg, out, runs, jobs, db>>

\* The URL input, disabled while isProcessing.
TypeUrl ==
  /\ ui.showCapture /\ ui.captureMode = "youtube" /\ ~ui.isProcessing
  /\ \E u \in PageUrls : ui' = [ui EXCEPT !.youtubeUrl = u]
  /\ UNCHANGED <<pipeline, fn, arg, out, runs, jobs, db>>

\* A click on the enabled Save Note button: handleCreateNote calls
\* createTextNote, which runs up to its insert.
createTextNote ==
  /\ ui.showCapture /\ ui.captureMode = "text"
  /\ Trim(ui.noteContent) # "" /\ ~ui.isProcessing
  /\ Submits < MaxSubmits
  /\ jobs' = Append(jobs, Started("createTextNote", "insertNote", ui, Null))
  /\ UNCHANGED <<pipeline, fn, arg, out, runs, ui, db>>

\* A click on the enabled Analyze Video button: handleCreateNote calls
\* createYouTubeNote, which returns after alert() for a URL without an
\* identifier; otherwise it calls processVideo, which runs up to its first
\* await: it reports fetching and sends the metadata lookup.
createYouTubeNote ==
  /\ ui.showCapture /\ ui.captureMode = "youtube"
  /\ Trim(ui.youtubeUrl) # "" /\ ~ui.isProcessing
  /\ LET id == extractVideoId(ui.youtubeUrl)
     IN IF ~Truthy(id)
        THEN UNCHANGED <<ui, jobs>>
        ELSE /\ Submits < MaxSubmits
             /\ ui' = [ui EXCEPT !.isProcessing = TRUE, !.progress = "fetching"]
             /\ jobs' = Append(jobs, Started("createYouTubeNote", "processVideo", ui, id))
  /\ UNCHANGED <<pipeline, fn, arg, out, runs, db>>

\* createYouTubeNote as it would be without its finally block.
FailedWithoutFinally(j) ==
  /\ ui' = [ui EXCEPT !.progress = "error"]
  /\ jobs' = [jobs EXCEPT ![j] = Ended("createYouTubeNote")]

\* The catch block and the finally block of createYouTubeNote for call j.
Failed(j) ==
  /\ ui' = [ui EXCEPT !.progress = "error", !.isProcessing = FALSE,
                      !.timers = @ + 1]
  /\ jobs' = [jobs EXCEPT ![j] = Ended("createYouTubeNote")]

\* processVideo goes through its other stages, the last report being
\* complete, and returns its result; createYouTubeNote sends the insert of
\* the note.
ProcessVideoReturns ==
  /\ \E j \in 1..Len(jobs) :
       /\ jobs[j].kind = "createYouTubeNote" /\ jobs[j].pc = "processVideo"
       /\ jobs' = [jobs EXCEPT ![j].pc = "insertNote", ![j].result = "returned"]
       /\ ui' = [ui EXCEPT !.progress = "complete"]
  /\ UNCHANGED <<pipeline, fn, arg, out, runs, db>>

\* processVideo throws, which it does when the metadata lookup failed.
ProcessVideoThrows ==
  /\ \E j \in 1..Len(jobs) :
       /\ jobs[j].kind = "createYouTubeNote" /\ jobs[j].pc = "processVideo"
       /\ Failed(j)
  /\ UNCHANGED <<pipeline, fn, arg, out, runs, db>>

\* The insert of createTextNote answers, with the new row or with an error.
TextInsertSettles ==
  \E j \in 1..Len(jobs), stored \in BOOLEAN :
    /\ jobs[j].kind = "createTextNote" /\ jobs[j].pc = "insertNote"
    /\ jobs' = [jobs EXCEPT ![j] = Ended("createTextNote")]
    /\ IF stored
       THEN LET data == Row(Len(db.notes) + 1, "text", "")
            IN /\ db' = [db EXCEPT !.notes = Append(@, data)]
               /\ ui' = [ui EXCEPT !.notes = <<data>> \o jobs[j].notes,
                                   !.noteContent = "", !.showCapture = FALSE]
       ELSE UNCHANGED <<ui, db>>
    /\ UNCHANGED <<pipeline, fn, arg, out, runs>>

\* The insert of the note of createYouTubeNote answers: with the new row,
\* and the youtube_videos insert is sent, or with an error, which is thrown.
NoteInsertSettles ==
  \E j \in 1..Len(jobs), stored \in BOOLEAN :
    /\ jobs[j].kind = "createYouTubeNote" /\ jobs[j].pc = "insertNote"
    /\ IF stored
       THEN LET data == Row(Len(db.notes) + 1, "youtube", jobs[j].videoId.s)
            IN /\ db' = [db EXCEPT !.notes = Append(@, data)]
               /\ jobs' = [jobs EXCEPT ![j].pc = "insertVideo", ![j].data = data]
               /\ UNCHANGED ui
       ELSE /\ Failed(j)
            /\ UNCHANGED db
    /\ UNCHANGED <<pipeline, fn, arg, out, runs>>

\* The youtube_videos insert answers; its answer is not looked at. The rest
\* of the try block and the finally block run.
VideoInsertSettles ==
  \E j \in 1..Len(jobs), stored \in BOOLEAN :
    /\ jobs[j].kind = "createYouTubeNote" /\ jobs[j].pc = "insertVideo"
    /\ db' = IF stored
             THEN [db EXCEPT !.youtube_videos =
                     @ \cup {[note_id |-> jobs[j].data.id,
                              youtube_id |-> jobs[j].videoId.s]}]
             ELSE db
    /\ ui' = [ui EXCEPT !.notes = <<jobs[j].data>> \o jobs[j].notes,
                        !.youtubeUrl = "", !.showCapture = FALSE,
                        !.progress = "null", !.isProcessing = FALSE,
                        !.timers = @ + 1]
    /\ jobs' = [jobs EXCEPT ![j] = Ended("createYouTubeNote")]
    /\ UNCHANGED <<pipeline, fn, arg, out, runs>>

\* The select of loadNotes answers, with the rows or with an error.
LoadNotesSettles ==
  \E j \in 1..Len(jobs), loaded \in BOOLEAN :
    /\ jobs[j].kind = "loadNotes" /\ jobs[j].pc = "select"
    /\ jobs' = [jobs EXCEPT ![j] = Ended("loadNotes")]
    /\ ui' = IF loaded THEN [ui EXCEPT !.notes = Newest(db.notes)] ELSE ui
    /\ UNCHANGED <<pipeline, fn, arg, out, runs, db>>

\* A timer of the finally block, setTimeout(() => setProgress(null), 3000),
\* fires.
TimerFires ==
  /\ ui.timers > 0
  /\ ui' = [ui EXCEPT !.progress = "null", !.timers = @ - 1]
  /\ UNCHANGED <<pipeline, fn, arg, out, runs, jobs, db>>

PageNext ==
  \/ OpenCapture
  \/ closeCapture
  \/ SelectMode
  \/ TypeNote
  \/ TypeUrl
  \/ createTextNote
  \/ createYouTubeNote
  \/ ProcessVideoReturns
  \/ ProcessVideoThrows
  \/ TextInsertSettles
  \/ NoteInsertSettles
  \/ VideoInsertSettles
  \/ LoadNotesSettles
  \/ TimerFires

PageSpec == PageInit /\ [][PageNext]_vars

\* ============================================================ properties
Terminated == pc \in {"returned", "thrown"}

\* The (stage, percentage) pairs reported so far.
Stages == [i \in 1..Len(progress) |-> <<progress[i].stage, progress[i].percentage>>]

StageOrder ==
  << <<"fetching", 10>>, <<"transcribing", 30>>, <<"analyzing", 60>>, <<"complete", 100>> >>

Reported(stage) == \E i \in 1..Len(progress) : progress[i].stage = stage

IsAppError(e, code) == e.name = "AppError" /\ e.code = code

NoCallIssued == \A c \in DOMAIN calls : calls[c] = 0

\* C1: the progress events reported so far are always a prefix of
\* (fetching,10), (transcribing,30), (analyzing,60), (complete,100).
C1_ProgressIsPrefix ==
  /\ Len(progress) <= Len(StageOrder)
  /\ Stages = SubSeq(StageOrder, 1, Len(progress))

C1_Witness == pc = "returned" /\ Len(progress) = 4

\* C2: a terminated processVideo has returned a result that carries metadata,
\* transcript, fullTranscript and analysis, or has thrown an AppError whose
\* code is VALIDATION_ERROR, YOUTUBE_FETCH_FAILED or TRANSCRIPT_FAILED.
C2_ResultOrCodedError ==
  Terminated =>
    \/ /\ pc = "returned"
       /\ \A f \in {"metadata", "transcript", "fullTranscript", "analysis"} :
            Get(result, f) # Undefined
    \/ /\ pc = "thrown"
       /\ error.name = "AppError"
       /\ error.code \in {"VALIDATION_ERROR", "YOUTUBE_FETCH_FAILED", "TRANSCRIPT_FAILED"}

\* C3: when extractVideoId gives null for the URL, processVideo has thrown
\* VALIDATION_ERROR with no progress event reported and no network call made.
C3_InvalidUrlThrowsFirst ==
  (pc # "start" /\ extractVideoId(url) = Null) =>
    /\ pc = "thrown"
    /\ IsAppError(error, "VALIDATION_ERROR")
    /\ progress = <<>>
    /\ NoCallIssued
    /\ treq = NoRequest /\ areq = NoRequest
    /\ msaw = Pending /\ tsaw = Pending /\ asaw = Pending

C3_Witness == pc = "thrown" /\ extractVideoId(url) = Null /\ url # ""

\* C4: when the metadata lookup faulted or answered non-success, processVideo
\* has thrown YOUTUBE_FETCH_FAILED, neither endpoint was called and none of
\* transcribing, analyzing, complete was reported.
C4_MetadataFailureAborts ==
  (msaw # Pending /\ ~IsOk(msaw.r)) =>
    /\ pc = "thrown"
    /\ IsAppError(error, "YOUTUBE_FETCH_FAILED")
    /\ calls["transcript"] = 0 /\ calls["analysis"] = 0
    /\ calls["watch"] = 0 /\ calls["xml"] = 0 /\ calls["completion"] = 0
    /\ treq = NoRequest /\ areq = NoRequest
    /\ ~Reported("transcribing") /\ ~Reported("analyzing") /\ ~Reported("complete")

C4_Witness == msaw # Pending /\ msaw.r = NotOk /\ pc = "thrown"

\* C5: once analyzing is reported processVideo never throws: it is waiting
\* for the analysis fetch, and however that fetch settles (the handler's
\* answer or any answer of the transport) analyzeVideoContent returns; or it
\* has reported complete and returned a result that carries an analysis.
C5_AnalysisFailureAbsorbed ==
  Reported("analyzing") =>
    \/ /\ pc = "awaitAnalysis"
       /\ \A a \in AnalysisAnswers :
            analyzeVideoContent(metadata, fullTranscript, a.r).ok
    \/ /\ pc = "returned"
       /\ Reported("complete")
       /\ Get(result, "analysis") # Undefined

C5_Witness == pc = "returned" /\ asaw # Pending /\ ~IsOk(asaw.r)

\* The handler's success answer with no segments.
EmptyTranscriptAnswer ==
  Json(200, Obj([success |-> Bool(TRUE), transcript |-> Arr(<<>>)]))

AbsentCauses == {"noManifest", "emptyManifest", "noBaseUrl"}

\* C6: when the watch page has no caption manifest, an empty one, or the
\* chosen track has no baseUrl, the endpoint answers success with no
\* segments, and a processVideo that gets this answer goes on to analyzing
\* with transcript = [] and fullTranscript = "", which its result carries
\* once complete is reported.
C6_TranscriptAbsenceAbsorbed ==
  th.cause \in AbsentCauses =>
    /\ th.res = EmptyTranscriptAnswer
    /\ (tsaw.from = "handler" =>
          /\ pc \in {"awaitAnalysis", "returned"}
          /\ Reported("analyzing")
          /\ transcript = Arr(<<>>)
          /\ fullTranscript = Str("")
          /\ (pc = "returned" =>
                /\ Reported("complete")
                /\ Get(result, "transcript") = Arr(<<>>)
                /\ Get(result, "fullTranscript") = Str("")))

C6_Witness ==
  th.cause = "noBaseUrl" /\ tsaw.from = "handler" /\ pc = "returned"

\* C7: the endpoint answers 200 with the segments when the timed-text
\* document was read, 404 with code NO_TRANSCRIPT when the video has no
\* captions, and 404 with code VIDEO_UNAVAILABLE when the watch-page request
\* was not successful.
C7_ThreeWayOutcome ==
  th.pc = "done" =>
    /\ (th.cause = "parsed" => th.res.status = 200)
    /\ (th.cause \in {"noManifest", "emptyManifest"} =>
          th.res.status = 404 /\ Get(th.res.body, "code") = Str("NO_TRANSCRIPT"))
    /\ (th.cause = "watchNotOk" =>
          th.res.status = 404 /\ Get(th.res.body, "code") = Str("VIDEO_UNAVAILABLE"))

\* The fetch settled with a success answer that carries an empty transcript.
SoftEmpty(a) ==
  IsOk(a.r) /\ a.r.json /\ CanRead(a.r.body) /\ Get(a.r.body, "transcript") = Arr(<<>>)

\* C8: when the call to the transcript endpoint faulted or answered
\* non-success, processVideo has thrown TRANSCRIPT_FAILED, the analysis
\* endpoint was not called and neither analyzing nor complete was reported;
\* a success answer with an empty transcript lets the ingestion go on.
C8_TranscriptFailureAborts ==
  /\ (tsaw # Pending /\ ~IsOk(tsaw.r)) =>
       /\ pc = "thrown"
       /\ IsAppError(error, "TRANSCRIPT_FAILED")
       /\ calls["analysis"] = 0 /\ calls["completion"] = 0
       /\ areq = NoRequest
       /\ ~Reported("analyzing") /\ ~Reported("complete")
  /\ (tsaw # Pending /\ SoftEmpty(tsaw)) =>
       /\ pc \in {"awaitAnalysis", "returned"}
       /\ Reported("analyzing")

C8_Witness == tsaw # Pending /\ tsaw.r = NotOk /\ pc = "thrown"

FaultCauses == {"watchFault", "xmlNotOk", "xmlFault"}

\* C9: when the watch-page request faulted, or the timed-text request faulted
\* or answered non-success, the endpoint does not answer success, and a
\* processVideo that gets its answer has thrown TRANSCRIPT_FAILED.
C9_SourceFaultIsFatal ==
  (th.pc = "done" /\ th.cause \in FaultCauses) =>
    /\ ~IsOk(th.res)
    /\ (tsaw.from = "handler" => pc = "thrown" /\ IsAppError(error, "TRANSCRIPT_FAILED"))

\* C10: no network call is ever issued a second time.
C10_NoRetries == \A c \in DOMAIN calls : calls[c] <= 1

C10_Witness ==
  pc = "returned" /\ th.cause = "xmlNotOk" /\ \A c \in DOMAIN calls \ {"completion"} : calls[c] = 1

\* The analysis fetch ended in a degraded analysis: the endpoint was
\* unreachable or answered non-success (the completion call failing makes it
\* answer 500, an empty transcript 400), or the endpoint answered with its
\* own heuristics because the completion text did not parse.
Degraded ==
  /\ asaw # Pending
  /\ \/ ~IsOk(asaw.r)
     \/ asaw.from = "handler" /\ ah.cause \in {"unparsed", "completionFault"}

\* C11: when the analysis is a degraded one, processVideo has returned (it
\* has not thrown) and the analysis of its result has confidence_score 0.3
\* and sentiment "neutral".
C11_DegradedIsNeutral ==
  Degraded =>
    /\ pc = "returned"
    /\ Get(Get(result, "analysis"), "confidence_score") = Num(FallbackConfidence)
    /\ Get(Get(result, "analysis"), "sentiment") = Str("neutral")

C11_Witness ==
  /\ pc = "returned"
  /\ asaw.from = "handler" /\ ah.cause = "unparsed"
  /\ Get(Get(result, "analysis"), "confidence_score") = Num(FallbackConfidence)

\* C12: a request to the analysis endpoint whose transcript text is empty is
\* accepted: the handler does not answer it at its first checks, and the
\* completion call is issued for the title and channel it carries.
C12_EmptyTranscriptAnalyzed ==
  (ah.pc # "idle" /\ Get(areq.body, "transcript") = Str("")) =>
    /\ ah.cause # "rejected"
    /\ calls["completion"] = 1

\* processVideo run alone on url u as far as the answers m, t, a (what its
\* three fetches settled with, Pending for one that has not settled) take it.
Alone(u, m, t, a) ==
  LET s0 == StartStep(NewRun(u))
      s1 == IF s0.pc = "awaitMetadata" /\ m # Pending
            THEN MetadataStep(s0, getVideoMetadata(s0.videoId.s, m.r), m.r) ELSE s0
      s2 == IF s1.pc = "awaitTranscript" /\ t # Pending
            THEN TranscriptStep(s1, t.r) ELSE s1
  IN IF s2.pc = "awaitAnalysis" /\ a # Pending THEN AnalysisStep(s2, a.r) ELSE s2

Called(f) == fn = f /\ out # NotCalled

\* u contains one of the four shapes followed by eleven characters of the
\* identifier alphabet.
CarriesId(u) ==
  \E sh \in AcceptedShapes : \E i \in 1..Len(u) :
    /\ HasAt(u, i, sh)
    /\ i + Len(sh) + 10 <= Len(u)
    /\ \A k \in (i + Len(sh))..(i + Len(sh) + 10) : Char(u, k) \in IdChars

\* C14: for a URL made of one of the four accepted shapes and an
\* 11-character identifier, whatever precedes and follows, extractVideoId
\* returns that identifier; for a URL that contains no such pattern it
\* returns null; whatever it returns that is not null is a string of exactly
\* 11 characters of [a-zA-Z0-9_-].
C14_ExtractVideoId ==
  Called("extractVideoId") =>
    /\ \A sc \in UrlSchemes, sh \in AcceptedShapes, id \in GoodIds, rs \in UrlRests :
         arg = UrlOf(sc, sh, id, rs) => out = Str(id)
    /\ ~CarriesId(arg) => out = Null
    /\ out # Null =>
         /\ out.t = "string"
         /\ Len(out.s) = 11
         /\ \A k \in 1..Len(out.s) : Char(out.s, k) \in IdChars

C14_Witness ==
  /\ Called("extractVideoId")
  /\ arg = "https://www.youtube.com/v/abc_DEF-123&list=PL1"
  /\ out = Str("abc_DEF-123")

RECURSIVE EndOf(_, _)
\* Where the i-th of the texts ends in a string that holds them one after
\* another with one character between neighbours.
EndOf(texts, i) ==
  IF i = 0 THEN -1 ELSE EndOf(texts, i - 1) + 1 + Len(texts[i])

\* s is the texts in sequence order with a single space between neighbours
\* and nothing else.
IsSpaceJoin(s, texts) ==
  /\ Len(s) = (IF Len(texts) = 0 THEN 0 ELSE EndOf(texts, Len(texts)))
  /\ \A i \in 1..Len(texts) :
       SubSeq(s, EndOf(texts, i) - Len(texts[i]) + 1, EndOf(texts, i)) = texts[i]
  /\ \A i \in 1..(Len(texts) - 1) : Char(s, EndOf(texts, i) + 1) = " "

\* C15: the fullTranscript of a returned result is the texts of the segments
\* of its transcript, in order, with single spaces between them and nothing
\* changed; transcriptToText gives "" for no segments and "a b" for the
\* segments with texts "a" and "b".
C15_FullTranscriptIsJoin ==
  /\ pc = "returned" =>
       /\ IsArray(Get(result, "transcript"))
       /\ Get(result, "fullTranscript").t = "string"
       /\ IsSpaceJoin(Get(result, "fullTranscript").s,
                      [i \in 1..Len(Get(result, "transcript").a) |->
                         Get(Get(result, "transcript").a[i], "text").s])
  /\ transcriptToText(Arr(<<>>)) = Return(Str(""))
  /\ transcriptToText(Arr(<<Obj([text |-> Str("a")]), Obj([text |-> Str("b")])>>))
       = Return(Str("a b"))

C15_Witness ==
  /\ pc = "returned"
  /\ Len(Get(result, "transcript").a) = 2
  /\ Get(result, "fullTranscript") = Str("Hello Tom & Jerry")

\* The fetches of processVideo that were issued and have not settled.
Outstanding ==
  {c \in {"metadata", "transcript", "analysis"} :
     /\ calls[c] > 0
     /\ (CASE c = "metadata" -> msaw [] c = "transcript" -> tsaw [] OTHER -> asaw) = Pending}

\* What holds of the stages in every state.
StagesInSequence ==
  /\ Cardinality(Outstanding) <= 1
  /\ calls["transcript"] > 0 => msaw # Pending
  /\ calls["analysis"] > 0 => tsaw # Pending
  /\ calls["metadata"] > 0 => Reported("fetching")
  /\ calls["transcript"] > 0 => Reported("transcribing")
  /\ calls["analysis"] > 0 => Reported("analyzing")
  /\ Terminated => Outstanding = {}
  /\ pc = "thrown" =>
       \A c \in {"metadata", "transcript", "analysis"} : calls[c] <= 1

\* C16: at most one fetch of processVideo is outstanding; the transcript
\* request is issued only after the metadata fetch has settled and the
\* analysis request only after the transcript fetch has settled; a call that
\* was issued had its stage reported; and a processVideo that has thrown
\* stays thrown, issues nothing more and reports nothing more.
C16_StagesInSequence ==
  /\ []StagesInSequence
  /\ [][pc = "thrown" =>
          /\ pc' = "thrown"
          /\ progress' = progress
          /\ \A c \in {"metadata", "transcript", "analysis"} : calls'[c] = calls[c]]_vars

C16_Witness ==
  /\ pc = "thrown"
  /\ tsaw # Pending
  /\ th.pc = "done"
  /\ calls["metadata"] = 1 /\ calls["transcript"] = 1 /\ calls["analysis"] = 0

\* The themes as they are described: the words of the transcript, case-folded
\* and stripped of punctuation, longer than 3 and no stopword, the most
\* frequent first and of equally frequent ones the one met first, the first
\* 5 of them.
RankedThemes(text) ==
  LET words == SplitRuns(toLowerCase(text), WhiteSpace)
      cleaned == [i \in 1..Len(words) |-> KeepChars(words[i], WordChars)]
      kept == SelectSeq(cleaned, LAMBDA w : Len(w) > 3 /\ w \notin StopWords)
      ranked == SortByCountDesc(FirstSeen(kept, {}), kept)
  IN SubSeq(ranked, 1, IF Len(ranked) < 5 THEN Len(ranked) ELSE 5)

\* C17: both extractBasicThemes, of the browser side and of the analysis
\* endpoint, return the at most 5 most frequent words longer than 3 that are
\* no stopwords, case-folded and stripped, equally frequent ones in the
\* order they are first met in the transcript.
C17_ThemesRanked ==
  (Called("extractBasicThemes") \/ Called("ServerExtractBasicThemes")) =>
    out = StrArr(RankedThemes(arg))

\* The sentences of text (what lies between runs of . ! ?) that are longer
\* than 20 characters once trimmed.
LongSentences(text) ==
  SelectSeq(SplitRuns(text, {".", "!", "?"}), LAMBDA x : Len(Trim(x)) > 20)

\* C18: generateBasicSummary of a transcript with fewer than 4 sentences
\* longer than 20 characters is its first 300 characters (all of it when it
\* is shorter) followed by "..."; with 4 or more it is the first of them,
\* ". ", the last of them and ".", both trimmed.
C18_BasicSummary ==
  Called("generateBasicSummary") =>
    IF Len(LongSentences(arg)) < 4
    THEN /\ out = Str(SubSeq(arg, 1, IF Len(arg) < 300 THEN Len(arg) ELSE 300) \o "...")
         /\ Len(out.s) <= 303
    ELSE out = Str(Trim(LongSentences(arg)[1]) \o ". "
                   \o Trim(LongSentences(arg)[Len(LongSentences(arg))]) \o ".")

C18_Witness ==
  /\ Called("generateBasicSummary")
  /\ arg = "This sentence is long enough. This sentence is long enough. "
           \o "This sentence is long enough.   Here is another long sentence!? "
  /\ out = Str("This sentence is long enough. Here is another long sentence.")

\* The handler's test of a required field: !analysis[field].
Missing(v, f) == ~Truthy(Get(v, f))

PartialAnswer(r) == IsOk(r) /\ r.json /\ r.body.t = "object"

\* C21: when the lookup answers with success and a JSON object,
\* getVideoMetadata returns: title, channel and thumbnail_url are the
\* answer's title, author_name and thumbnail_url where it has them and
\* "Unknown Title", "Unknown Channel" and the img.youtube.com URL of the
\* identifier where it has not, and duration is 0. It throws, and then
\* YOUTUBE_FETCH_FAILED, only when the request failed, answered non-success
\* or gave no readable body.
C21_MetadataDefaults ==
  Called("getVideoMetadata") =>
    /\ PartialAnswer(arg.r) =>
         /\ out.ok
         /\ Get(out.value, "title") =
              (IF Missing(arg.r.body, "title") THEN Str("Unknown Title")
               ELSE Get(arg.r.body, "title"))
         /\ Get(out.value, "channel") =
              (IF Missing(arg.r.body, "author_name") THEN Str("Unknown Channel")
               ELSE Get(arg.r.body, "author_name"))
         /\ Get(out.value, "thumbnail_url") =
              (IF Missing(arg.r.body, "thumbnail_url")
               THEN Str("https://img.youtube.com/vi/" \o arg.videoId \o "/maxresdefault.jpg")
               ELSE Get(arg.r.body, "thumbnail_url"))
    /\ out.ok => Get(out.value, "duration") = Num(0)
    /\ ~out.ok =>
         /\ ~PartialAnswer(arg.r)
         /\ IsAppError(out.error, "YOUTUBE_FETCH_FAILED")

C21_Witness ==
  /\ Called("getVideoMetadata")
  /\ arg.videoId = "dQw4w9WgXcQ"
  /\ arg.r = Json(200, Obj([author_name |-> Str("Y")]))
  /\ Get(out.value, "title") = Str("Unknown Title")
  /\ Get(out.value, "channel") = Str("Y")
  /\ Get(out.value, "thumbnail_url")
       = Str("https://img.youtube.com/vi/dQw4w9WgXcQ/maxresdefault.jpg")

\* The positions of the English tracks of a manifest.
English(manifest) ==
  {i \in 1..Len(manifest) :
     Get(manifest[i], "languageCode") \in {Str("en"), Str("en-US")}}

\* The track the claim has fetched: the first English one, or the first.
Wanted(manifest) ==
  IF English(manifest) = {} THEN 1
  ELSE CHOOSE i \in English(manifest) : \A j \in English(manifest) : i <= j

\* C22: given a non-empty manifest, the address fetchYouTubeTranscript
\* fetches is the baseUrl of the manifest's first English track
\* (languageCode en or en-US) when it has one, wherever it stands, and of
\* its first track otherwise; it fetches nothing only when that track has no
\* baseUrl.
C22_EnglishTrackFirst ==
  Called("fetchYouTubeTranscript") =>
    LET track == arg[Wanted(arg)]
    IN IF Truthy(Get(track, "baseUrl"))
       THEN out.ok /\ out.value = Get(track, "baseUrl")
       ELSE ~out.ok

C22_Witness ==
  /\ Called("fetchYouTubeTranscript")
  /\ Len(arg) = 2
  /\ Get(arg[1], "languageCode") = Str("fr")
  /\ Get(arg[2], "languageCode") = Str("en-US")
  /\ out.ok
  /\ out.value = Str("https://www.youtube.com/api/timedtext?lang=en-US")

\* The entities the text field is decoded from, and the newline.
Entities ==
  {<<"&amp;", "&">>, <<"&lt;", "<">>, <<"&gt;", ">">>, <<"&quot;", "\"">>,
   <<"&#39;", "'">>, <<"&nbsp;", " ">>, <<"\n", " ">>}

RECURSIVE Decoded(_)
\* A text with every occurrence of an entity in it decoded, read once from
\* left to right.
Decoded(text) ==
  IF Len(text) = 0 THEN ""
  ELSE LET here == {e \in Entities : HasAt(text, 1, e[1])}
       IN IF here = {} THEN SubSeq(text, 1, 1) \o Decoded(Tail(text))
          ELSE LET e == CHOOSE x \in here : TRUE
               IN e[2] \o Decoded(SubSeq(text, Len(e[1]) + 1, Len(text)))

\* C23: parseTranscriptXML gives one segment for each element of the
\* document, in document order, with the start and the duration of the
\* element's attributes and the element's text with every occurrence of
\* &amp; &lt; &gt; &quot; &#39; &nbsp; and of a newline decoded (and the white
\* space around it cut, as the code cuts it); no element gives no segment.
C23_OneSegmentPerElement ==
  Called("parseTranscriptXML") =>
    out = Arr([i \in 1..Len(arg) |->
                 Obj([start |-> parseFloat(arg[i].start),
                      duration |-> parseFloat(arg[i].dur),
                      text |-> Str(Trim(Decoded(Trim(arg[i].text))))])])

\* The fields of a formatted timestamp, between the colons.
Fields(stamp) == SplitRuns(stamp, {":"})

\* A string of one or more digits.
IsNumeral(str) == Len(str) > 0 /\ \A i \in 1..Len(str) : Char(str, i) \in Digits

\* C24: formatTimestamp(0) is "0:00" and formatTimestamp(3661) is
\* "1:01:01"; for every whole number of seconds s >= 0 the result is
\* h:mm:ss when s >= 3600 and m:ss otherwise, its minutes and seconds are
\* below 60, the seconds (and the minutes after hours) have two digits, and
\* hours*3600 + minutes*60 + seconds read back from it is s.
C24_TimestampRoundTrip ==
  Called("formatTimestamp") =>
    LET f == Fields(out.s)
        n == Len(f)
        back == IF n = 3
                THEN StrToNat(f[1]) * 3600 + StrToNat(f[2]) * 60 + StrToNat(f[3])
                ELSE StrToNat(f[1]) * 60 + StrToNat(f[2])
    IN /\ arg = 0 => out = Str("0:00")
       /\ arg = 3661 => out = Str("1:01:01")
       /\ n = (IF arg >= 3600 THEN 3 ELSE 2)
       /\ \A i \in 1..n : IsNumeral(f[i])
       /\ out.s = (IF n = 3 THEN f[1] \o ":" \o f[2] \o ":" \o f[3]
                   ELSE f[1] \o ":" \o f[2])
       /\ Len(f[n]) = 2 /\ StrToNat(f[n]) < 60
       /\ StrToNat(f[n - 1]) < 60
       /\ n = 3 => Len(f[2]) = 2
       /\ back = arg

C24_Witness ==
  /\ Called("formatTimestamp")
  /\ arg = 3661
  /\ out = Str("1:01:01")

\* A score, in tenths, within [0,1].
UnitScore(v) == v.t = "number" /\ v.n \in 0..10

\* C25: in every result processVideo returns, whatever the analysis endpoint
\* answered, the sentiment of the analysis is positive, negative or neutral
\* and its complexity_score and confidence_score, when present, are within
\* [0,1].
C25_AnalysisInRange ==
  pc = "returned" =>
    LET analysis == Get(result, "analysis")
    IN /\ Get(analysis, "sentiment") \in {Str("positive"), Str("negative"), Str("neutral")}
       /\ \A f \in {"complexity_score", "confidence_score"} :
            Get(analysis, f) # Undefined => UnitScore(Get(analysis, f))

\* C26: for one transcript text, the fallback of analyzeVideoContent and
\* the fallback of the analysis endpoint give the same themes, the same
\* summary and transcript_summary, and the same set of analysis fields in
\* the final result.
C26_FallbacksAgree ==
  Called("fallbacks") =>
    /\ Get(out.client, "themes") = Get(out.server, "themes")
    /\ Get(out.client, "summary") = Get(out.server, "summary")
    /\ Get(out.client, "transcript_summary") = Get(out.server, "transcript_summary")
    /\ DOMAIN out.client.o = DOMAIN out.server.o

\* The calls of createYouTubeNote whose processVideo has neither returned
\* nor thrown, and those that have not ended.
InFlight ==
  {j \in 1..Len(jobs) :
     jobs[j].kind = "createYouTubeNote" /\ jobs[j].pc = "processVideo"}

Ingesting ==
  {j \in 1..Len(jobs) : jobs[j].kind = "createYouTubeNote" /\ jobs[j].pc # "done"}

\* C27: in the page, whatever the user does (submit, close the capture
\* modal, reopen, submit again) while responses are pending, at most one
\* processVideo has neither returned nor thrown, and isProcessing is true
\* exactly while a call of createYouTubeNote that got as far as processVideo
\* has not ended.
C27_OneIngestionInFlight ==
  /\ Cardinality(InFlight) <= 1
  /\ ui.isProcessing <=> Ingesting # {}

\* Call j stores its note and updates the list in this step, with the row.
Shows(j, row) ==
  \/ /\ jobs[j].kind = "createTextNote" /\ jobs[j].pc = "insertNote"
     /\ Len(db'.notes) = Len(db.notes) + 1
     /\ row = db'.notes[Len(db'.notes)]
  \/ /\ jobs[j].kind = "createYouTubeNote" /\ jobs[j].pc = "insertVideo"
     /\ jobs'[j].pc = "done"
     /\ row = jobs[j].data

\* C28: when createTextNote or createYouTubeNote has stored a note and
\* updates the list, the list is the new note followed by every note that
\* was in it just before, whatever completed while the call was waiting
\* (loadNotes, another creation).
C28_NoNoteLost ==
  [][\A j \in 1..Len(jobs) : \A row \in {jobs[j].data} \cup {db'.notes[i] : i \in 1..Len(db'.notes)} :
       Shows(j, row) => ui'.notes = <<row>> \o ui.notes]_vars

\* Every youtube_videos row points to a stored note of type youtube with
\* its video.
VideosFollowNotes ==
  \A v \in db.youtube_videos :
    \E i \in 1..Len(db.notes) :
      db.notes[i] = Row(v.note_id, "youtube", v.youtube_id)

\* What one step of the page may do to the tables and to isProcessing.
PersistsInOrder ==
  /\ \A i \in 1..Len(db'.notes) :
       (i > Len(db.notes) /\ db'.notes[i].note_type = "youtube") =>
         \E j \in 1..Len(jobs) :
           /\ jobs[j].kind = "createYouTubeNote"
           /\ jobs[j].result = "returned" /\ jobs[j].pc = "insertNote"
           /\ jobs'[j].data = db'.notes[i]
  /\ \A v \in db'.youtube_videos \ db.youtube_videos :
       \E j \in 1..Len(jobs), i \in 1..Len(db.notes) :
         /\ jobs[j].pc = "insertVideo"
         /\ jobs[j].data = db.notes[i]
         /\ v.note_id = db.notes[i].id
  /\ \A j \in 1..Len(jobs) :
       (jobs[j].kind = "createYouTubeNote" /\ jobs[j].pc # "done"
        /\ jobs'[j].pc = "done") => ~ui'.isProcessing
  /\ \A j \in 1..Len(jobs) :
       (jobs[j].result = "none" /\ jobs'[j].result = "returned") =>
         ui'.progress = "complete"

\* C29: createYouTubeNote inserts a note only after processVideo has
\* returned its result (complete reported), never after it threw; the
\* youtube_videos row is inserted only after the insert of the note
\* succeeded and carries that note's id; and when createYouTubeNote ends, by
\* success or by error, isProcessing is false.
C29_PersistAfterIngestion ==
  /\ [](VideosFollowNotes /\ \A j \in 1..Len(jobs) : jobs[j].result = "none" => jobs[j].data = NoData)
  /\ [][PersistsInOrder]_vars

C29_Witness ==
  /\ \E v \in db.youtube_videos : v.note_id = 2 /\ v.youtube_id = "dQw4w9WgXcQ"
  /\ Len(ui.notes) > 0 /\ ui.notes[1] = Row(2, "youtube", "dQw4w9WgXcQ")
  /\ ~ui.isProcessing
  /\ \E j \in 1..Len(jobs) : jobs[j] = Ended("createYouTubeNote")

\* The analysis endpoint answered success with a JSON object.
AnsweredSuccess ==
  asaw # Pending /\ IsOk(asaw.r) /\ asaw.r.json /\ asaw.r.body.t = "object"

\* C30: when the analysis endpoint answered success, each of
\* complexity_score and confidence_score that the response carries, the
\* value 0 included, is the value of the result's analysis; the defaults 0.5
\* and 0.8 stand only for a field the response does not carry.
C30_ScoresPassThrough ==
  (pc = "returned" /\ AnsweredSuccess) =>
    \A f \in {"complexity_score", "confidence_score"} :
      Get(asaw.r.body, f) # Undefined =>
        Get(Get(result, "analysis"), f) = Get(asaw.r.body, f)

====
